---- MODULE Spec2Model ----
(***************************************************************************)
(* Cache-aware scheduler of the gateway (services/cache/aware_scheduler.py) *)
(* as a state machine: one select_with_cache_affinity call at a time runs  *)
(* over a catalog of providers, endpoints and keys, the live concurrency   *)
(* counters and the affinity store.                                        *)
(***************************************************************************)
EXTENDS Integers, Sequences, FiniteSets, TLC

VARIABLES
    catalog,          \* provider / endpoint / key rows the queries read
    concurrency,      \* live counters: [endpoint: Endpoints -> Nat, key: Keys -> Nat]
    affinity,         \* affinity store: slot -> record (NoAffinity when absent)
    priority_mode,    \* CacheAwareScheduler.priority_mode
    pc,               \* position of the select call
    req,              \* arguments of the running / last select call
    provider_offset,  \* local provider_offset of select
    global_model_id,  \* local global_model_id of select
    candidates,       \* candidates of the current page, in evaluation order
    idx,              \* position of the for loop in candidates
    outcome,          \* returned triple or raised failure
    last_check,       \* inputs and verdict of the last _check_concurrent_available
    trace,            \* per-call history: queries, checks, affinity reads / writes
    calls,            \* stage of each of the calls that run concurrently
    local_cache,      \* LocalCache: _cache (recency order), _expiry, _max_size, _default_ttl
    clock,            \* time.time() as read by LocalCache
    cache_op,         \* history: the last LocalCache operation, its result, the touch stamps
    cache_sync,       \* CacheSyncService: _running, _pubsub, _listener_task
    tasks,            \* asyncio tasks created by the service: id -> state
    pubsubs,          \* PubSub objects created by the service: id -> state
    sync_calls        \* position of each start() / stop() call of the service

schedulerVars == <<catalog, concurrency, affinity, priority_mode, pc, req, provider_offset,
                   global_model_id, candidates, idx, outcome, last_check, trace, calls>>
cacheVars == <<local_cache, clock, cache_op>>
syncVars == <<cache_sync, tasks, pubsubs, sync_calls>>
vars == <<schedulerVars, cacheVars, syncVars>>

(***************************************************************************)
(* Bounds of the model.                                                    *)
(***************************************************************************)
\* how many rows of the catalog / counters differ from the nominal catalog
MaxConditions == 1
\* how many arguments of a select call differ from the default call
MaxDeviations == 1
\* how many calls of select run concurrently on one key
MaxConcurrentCalls == 3

(***************************************************************************)
(* Values.                                                                 *)
(***************************************************************************)
\* Python None for a nullable integer column
None == -1
\* the rank given to a NULL priority (global_priority, internal_priority)
NullPriority == 999999

\* reservation ratios the reservation manager may return, in percent
ReservationRatios == {0, 10, 35, 100}
\* the ratios of the probe phase (10%) and of the stable phase (10% to 35%)
PhaseRatios == {10, 35}

Providers == {"P1", "P2", "P3"}
Endpoints == {"E1", "E2", "E3", "E4"}
Keys == {"K1", "K2", "K3", "K4", "K5"}
Callers == {"u1", "u2"}
RawFormats == {"claude", "OPENAI"}
ModelNames == {"gpt-x", "old-m", "nope"}

\* lexicographic order of the ids (Python compares the id strings)
IdRank(id) ==
    CASE id \in {"K1", "E1", "P1"} -> 1
      [] id \in {"K2", "E2", "P2"} -> 2
      [] id \in {"K3", "E3", "P3"} -> 3
      [] id \in {"K4", "E4"} -> 4
      [] OTHER -> 5

\* GlobalModel rows of the nominal catalog: "gpt-x" is active, "old-m" is
\* inactive, "nope" has no row
GlobalModels ==
    { [id |-> "gm1", name |-> "gpt-x", is_active |-> TRUE],
      [id |-> "gm2", name |-> "old-m", is_active |-> FALSE] }

\* Provider.name
provider_name == [p \in Providers |->
    CASE p = "P1" -> "alpha" [] p = "P2" -> "beta" [] OTHER -> "gamma"]

\* Provider.provider_priority
provider_priority == [p \in Providers |-> IdRank(p)]

\* ProviderEndpoint.provider_id, api_format
endpoint_provider_id == [e \in Endpoints |->
    CASE e \in {"E1", "E4"} -> "P1" [] e = "E2" -> "P2" [] OTHER -> "P3"]
endpoint_api_format == [e \in Endpoints |-> IF e = "E4" THEN "OPENAI" ELSE "CLAUDE"]

\* ProviderAPIKey.endpoint_id and the key's columns
key_endpoint_id == [k \in Keys |->
    CASE k \in {"K1", "K2"} -> "E1" [] k = "K3" -> "E2" [] k = "K4" -> "E3"
      [] OTHER -> "E4"]
key_internal_priority == [k \in Keys |-> 1]
key_global_priority == [k \in Keys |->
    CASE k = "K1" -> 2 [] k = "K2" -> None [] k = "K3" -> 1 [] k = "K4" -> 1
      [] OTHER -> None]
key_cache_ttl_minutes == [k \in Keys |-> IF k = "K3" THEN 0 ELSE 5]

\* Provider.endpoints and ProviderEndpoint.api_keys (the loaded relationships)
ProviderEndpoints(p) == {e \in Endpoints : endpoint_provider_id[e] = p}
EndpointKeys(e) == {k \in Keys : key_endpoint_id[k] = e}

\* int(sha256(f"{affinity_key}:{key.id}").hexdigest()[:16], 16), its leading 24
\* bits (the 64-bit scores of these ids differ in them, so the order is kept)
HashScore(affinity_key, key_id) ==
    IF affinity_key = "u1"
    THEN CASE key_id = "K1" -> 11449037 [] key_id = "K2" -> 5892024
           [] key_id = "K3" -> 7270344 [] key_id = "K4" -> 5984402
           [] OTHER -> 13901228
    ELSE CASE key_id = "K1" -> 609865 [] key_id = "K2" -> 15341151
           [] key_id = "K3" -> 8746669 [] key_id = "K4" -> 1197399
           [] OTHER -> 9425745

\* normalize_api_format: the format string upper-cased into the APIFormat value
NormalizeApiFormat(api_format) ==
    CASE api_format = "claude" -> "CLAUDE"
      [] api_format = "openai" -> "OPENAI"
      [] OTHER -> api_format


(***************************************************************************)
(* Catalog rows and live counters: the nominal catalog has every provider, *)
(* endpoint and key active, every provider implementing "gpt-x", no        *)
(* circuit open, no whitelist and no load; a condition changes one row.    *)
(***************************************************************************)
Conditions ==
    {<<"provider_inactive", "P1">>, <<"model_inactive", "P1">>, <<"model_missing", "P2">>,
     <<"endpoint_inactive", "E1">>}
    \cup ({"key_inactive", "not_whitelisted"} \X {"K1"})
    \cup ({"circuit_open"} \X {"K2"})
    \cup ({"exclusive_cap"} \X {"K2"})
    \cup ({"full"} \X {"K1", "K2", "K3", "K4"})
    \cup ({"busy"} \X {"K1"})
    \cup ({"priority_mode"} \X {"global_key"})

CatalogOf(S) ==
    [ \* the GlobalModel table
      global_models |->
          {[ id |-> g.id, name |-> g.name,
             is_active |-> g.is_active \/ <<"model_active", g.id>> \in S,
             \* GlobalModel.supported_capabilities (empty: no capability limit)
             supported_capabilities |->
                 IF <<"caps_tools_only", g.id>> \in S THEN {"tools"}
                 ELSE IF <<"caps_vision", g.id>> \in S THEN {"tools", "vision"}
                 ELSE {} ] : g \in GlobalModels},
      provider_is_active |-> [p \in Providers |-> <<"provider_inactive", p>> \notin S],
      \* the priority columns (the nominal values; InitPriority varies them)
      provider_priority |-> provider_priority,
      key_internal_priority |-> key_internal_priority,
      key_global_priority |-> key_global_priority,
      \* the order in which endpoint.api_keys enumerates the rows (none is
      \* specified by the query; InitSort varies it)
      api_keys_order |-> <<"K1", "K2", "K3", "K4", "K5">>,
      \* Provider.models: the provider's Model rows ("old-m" is implemented by
      \* P1 and P2 only)
      provider_models |-> [p \in Providers |->
          (IF <<"model_missing", p>> \in S THEN {}
           ELSE {[global_model_id |-> "gm1",
                  is_active |-> <<"model_inactive", p>> \notin S,
                  \* Model.get_effective_supports_streaming()
                  supports_streaming |-> <<"no_streaming", p>> \notin S]})
          \cup (IF p \in {"P1", "P2"}
                THEN {[global_model_id |-> "gm2", is_active |-> TRUE,
                       supports_streaming |-> TRUE]}
                ELSE {})],
      endpoint_is_active |-> [e \in Endpoints |-> <<"endpoint_inactive", e>> \notin S],
      key_is_active |-> [k \in Keys |-> <<"key_inactive", k>> \notin S],
      \* health_monitor.get_circuit_breaker_status(key) is (False, reason)
      key_circuit_open |-> [k \in Keys |-> <<"circuit_open", k>> \in S],
      \* ProviderAPIKey.allowed_models: NULL, or a list of model names
      key_allowed_models |-> [k \in Keys |->
          IF <<"not_whitelisted", k>> \in S
          THEN [is_null |-> FALSE, names |-> {"other-model"}]
          ELSE [is_null |-> TRUE, names |-> {}]],
      \* ProviderAPIKey.capabilities holds an EXCLUSIVE capability
      key_exclusive_capability |-> [k \in Keys |-> <<"exclusive_cap", k>> \in S],
      \* ProviderEndpoint.max_concurrent (NULL: no cap)
      endpoint_max_concurrent |-> [e \in Endpoints |->
          CASE e = "E1" -> 10 [] e = "E2" -> 1 [] OTHER -> None],
      \* ProviderAPIKey.max_concurrent (NULL: adaptive) and learned_max_concurrent
      key_max_concurrent |-> [k \in Keys |->
          CASE k = "K1" -> 5 [] k = "K4" -> 1 [] OTHER -> None],
      key_learned_max_concurrent |-> [k \in Keys |->
          CASE k = "K2" -> 2 [] k = "K4" -> 3 [] OTHER -> None],
      \* the ratios calculate_reservation returns for the keys of the catalog
      reservation_ratios |-> PhaseRatios ]

\* in-flight requests on a key under load: up to its limit (or its endpoint's cap)
FullLoad(k) ==
    CASE k = "K1" -> 5 [] k = "K2" -> 2 [] k = "K3" -> 1 [] k = "K4" -> 1 [] OTHER -> 0

RECURSIVE SumOver(_, _)
SumOver(S, f) ==
    IF S = {} THEN 0
    ELSE LET x == CHOOSE x \in S : TRUE IN f[x] + SumOver(S \ {x}, f)

\* the request-execution layer increments the endpoint counter and the key
\* counter together, so an endpoint's count is the sum over its keys
ConcurrencyOf(S) ==
    LET kc == [k \in Keys |->
                  IF <<"full", k>> \in S THEN FullLoad(k)
                  ELSE IF <<"busy", k>> \in S THEN FullLoad(k) - 1 ELSE 0]
    IN [key |-> kc, endpoint |-> [e \in Endpoints |-> SumOver(EndpointKeys(e), kc)]]

RECURSIVE SetsUpTo(_, _)
SetsUpTo(U, n) ==
    IF n = 0 THEN {{}}
    ELSE LET smaller == SetsUpTo(U, n - 1)
         IN smaller \cup {S \cup {c} : S \in smaller, c \in U}

\* the sets of at most MaxConditions conditions
ConditionSets == SetsUpTo(Conditions, MaxConditions)

(***************************************************************************)
(* Access restrictions of the caller: _get_effective_restrictions.  A list *)
(* column (NULL or a list) is a set here, NULL and [] both the empty set:  *)
(* merge_restrictions does not tell them apart.                            *)
(***************************************************************************)
\* a merged restriction: None, or a set
NoRestriction == [is_none |-> TRUE, members |-> {}]
Restricted(S) == [is_none |-> FALSE, members |-> S]

\* (mutant) no merged restriction is ever applied
IsTruthy_Never(restriction) == FALSE

\* "if allowed_x:", the truth value Python gives a merged restriction
IsTruthy(restriction) == ~restriction.is_none /\ restriction.members # {}

\* (mutant) with both lists set the key's list wins
MergeRestrictions_KeyWins(key_restriction, user_restriction) ==
    IF key_restriction # {} THEN Restricted(key_restriction)
    ELSE IF user_restriction # {} THEN Restricted(user_restriction)
    ELSE NoRestriction

\* merge_restrictions
MergeRestrictions(key_restriction, user_restriction) ==
    IF key_restriction # {} /\ user_restriction # {}
    THEN Restricted(key_restriction \cap user_restriction)
    ELSE IF key_restriction # {} THEN Restricted(key_restriction)
    ELSE IF user_restriction # {} THEN Restricted(user_restriction)
    ELSE NoRestriction

\* user_api_key = None
NoApiKey ==
    [ is_none |-> TRUE, allowed_providers |-> {}, allowed_endpoints |-> {},
      allowed_models |-> {}, allowed_api_formats |-> {},
      user |-> [allowed_providers |-> {}, allowed_endpoints |-> {}, allowed_models |-> {}] ]

\* _get_effective_restrictions
GetEffectiveRestrictions(user_api_key) ==
    IF user_api_key.is_none
    THEN [ allowed_providers |-> NoRestriction, allowed_endpoints |-> NoRestriction,
           allowed_models |-> NoRestriction, allowed_api_formats |-> NoRestriction ]
    ELSE [ allowed_providers |->
               MergeRestrictions(user_api_key.allowed_providers,
                                 user_api_key.user.allowed_providers),
           allowed_endpoints |->
               MergeRestrictions(user_api_key.allowed_endpoints,
                                 user_api_key.user.allowed_endpoints),
           allowed_models |->
               MergeRestrictions(user_api_key.allowed_models,
                                 user_api_key.user.allowed_models),
           allowed_api_formats |->
               IF user_api_key.allowed_api_formats # {}
               THEN Restricted(user_api_key.allowed_api_formats)
               ELSE NoRestriction ]

(***************************************************************************)
(* Arguments of select_with_cache_affinity.                                *)
(***************************************************************************)
\* provider_batch_size (the code's default is 20: one page holds the catalog)
BatchSizes == {1, 2, 20}
\* max_candidates_per_batch (None, or a positive number)
MaxCandidateValues == {None, 1}

\* excluded_endpoints / excluded_keys: what failed earlier in the same request
ExcludedEndpointLists == {{}, {"E1"}, {"E1", "E2"}, {"E1", "E2", "E3"}}
ExcludedKeyLists == {{}, {"K1"}, {"K2"}, {"K1", "K2"}}

DefaultRequest ==
    [ affinity_key |-> "u1", api_format |-> "claude", model_name |-> "gpt-x",
      excluded_endpoints |-> {}, excluded_keys |-> {},
      provider_batch_size |-> 1, max_candidates_per_batch |-> None,
      \* only a direct list_all_candidates call carries these
      user_api_key |-> NoApiKey, is_stream |-> FALSE, capability_requirements |-> {} ]

\* the calls that differ from r in one more argument
OneMoreDeviation(r) ==
    {[r EXCEPT !.affinity_key = c] : c \in Callers}
    \cup {[r EXCEPT !.api_format = f] : f \in RawFormats}
    \cup {[r EXCEPT !.model_name = m] : m \in ModelNames}
    \cup {[r EXCEPT !.excluded_endpoints = x] : x \in ExcludedEndpointLists}
    \cup {[r EXCEPT !.excluded_keys = x] : x \in ExcludedKeyLists}
    \cup {[r EXCEPT !.provider_batch_size = b] : b \in BatchSizes}
    \cup {[r EXCEPT !.max_candidates_per_batch = m] : m \in MaxCandidateValues}

RECURSIVE RequestsUpTo(_)
RequestsUpTo(n) ==
    IF n = 0 THEN {DefaultRequest}
    ELSE LET fewer == RequestsUpTo(n - 1)
         IN fewer \cup UNION {OneMoreDeviation(r) : r \in fewer}

\* the calls that differ from the default call in at most MaxDeviations arguments
Requests == RequestsUpTo(MaxDeviations)

(***************************************************************************)
(* Concurrency admission: _get_effective_concurrent_limit and              *)
(* _check_concurrent_available.                                            *)
(***************************************************************************)

\* (mutant) the learned cap is preferred to the fixed cap
GetEffectiveConcurrentLimit_LearnedFirst(max_concurrent, learned_max_concurrent) ==
    IF learned_max_concurrent = None
    THEN max_concurrent
    ELSE learned_max_concurrent

\* _get_effective_concurrent_limit: the fixed cap, else the learned one (or None)
GetEffectiveConcurrentLimit(max_concurrent, learned_max_concurrent) ==
    IF max_concurrent = None
    THEN learned_max_concurrent
    ELSE max_concurrent

\* math.ceil(limit * (1 - ratio)), the ratio in percent; for the limits and
\* ratios of this model the floating-point product rounds to the same integer
CeilReserved(limit, ratio) == (limit * (100 - ratio) + 99) \div 100

Max(a, b) == IF a >= b THEN a ELSE b

\* (mutant) the product is rounded down
AvailableForNew_Floor(limit, ratio) == Max(1, (limit * (100 - ratio)) \div 100)

\* (mutant) no floor of one slot
AvailableForNew_NoFloor(limit, ratio) == CeilReserved(limit, ratio)

\* available_for_new = max(1, math.ceil(effective_key_limit * (1 - reservation_ratio)))
AvailableForNew(limit, ratio) == Max(1, CeilReserved(limit, ratio))

\* (mutant) the endpoint rejects only above its cap
EndpointLevelOk_AboveCap(endpoint_limit, endpoint_count) ==
    ~(endpoint_limit # None /\ endpoint_count > endpoint_limit)

\* the endpoint-level check: endpoint_count >= endpoint.max_concurrent rejects
EndpointLevelOk(endpoint_limit, endpoint_count) ==
    ~(endpoint_limit # None /\ endpoint_count >= endpoint_limit)

\* (mutant) the reservation is applied to cached users too
KeyLevelOk_ReservesForAll(is_cached_user, key_count, limit, ratio) ==
    IF limit = None THEN TRUE
    ELSE ~(key_count >= AvailableForNew(limit, ratio))

\* the key-level check
KeyLevelOk(is_cached_user, key_count, limit, ratio) ==
    IF limit = None THEN TRUE
    ELSE IF is_cached_user THEN ~(key_count >= limit)
    ELSE ~(key_count >= AvailableForNew(limit, ratio))

\* (can_use, snapshot) of _check_concurrent_available, given the endpoint's cap,
\* the key's effective limit, the counts get_current_concurrency returned and the
\* ratio calculate_reservation returned
CheckConcurrentAvailable(endpoint_limit, limit, is_cached_user, endpoint_count, key_count, ratio) ==
    [ can_use |-> EndpointLevelOk(endpoint_limit, endpoint_count)
                  /\ KeyLevelOk(is_cached_user, key_count, limit, ratio),
      endpoint_current |-> endpoint_count,
      endpoint_limit |-> endpoint_limit,
      key_current |-> key_count,
      effective_limit |-> limit,
      key_limit |-> IF is_cached_user \/ limit = None THEN limit
                    ELSE AvailableForNew(limit, ratio),
      is_cached_user |-> is_cached_user,
      reservation_ratio |-> ratio ]

NoCheck ==
    [ can_use |-> FALSE, endpoint_current |-> 0,
      endpoint_limit |-> None, key_current |-> 0, effective_limit |-> None,
      key_limit |-> None, is_cached_user |-> FALSE, reservation_ratio |-> 0 ]

(***************************************************************************)
(* Candidate listing: list_all_candidates and its helpers.                 *)
(***************************************************************************)
\* tuples of integers, compared as Python compares tuples
RECURSIVE LexLeq(_, _)
LexLeq(a, b) ==
    IF a = <<>> THEN TRUE
    ELSE IF b = <<>> THEN FALSE
    ELSE IF Head(a) # Head(b) THEN Head(a) < Head(b)
    ELSE LexLeq(Tail(a), Tail(b))

\* sorted(S, key=score): the elements of S in ascending score
RECURSIVE SortedBy(_, _)
SortedBy(S, score) ==
    IF S = {} THEN <<>>
    ELSE LET x == CHOOSE x \in S : \A y \in S : LexLeq(score[x], score[y])
         IN <<x>> \o SortedBy(S \ {x}, score)

\* sorted(s, key=score) of a list: ascending score, elements of equal score in
\* the order of the list (the sort is stable)
RECURSIVE StableSortedBy(_, _)
StableSortedBy(s, score) ==
    IF s = <<>> THEN <<>>
    ELSE LET i == CHOOSE i \in 1..Len(s) :
                     /\ \A j \in 1..Len(s) : LexLeq(score[s[i]], score[s[j]])
                     /\ \A j \in 1..(i - 1) : score[s[j]] # score[s[i]]
         IN <<s[i]>> \o StableSortedBy(SubSeq(s, 1, i - 1) \o SubSeq(s, i + 1, Len(s)), score)

RECURSIVE Flatten(_)
Flatten(seqs) == IF seqs = <<>> THEN <<>> ELSE Head(seqs) \o Flatten(Tail(seqs))

Min(a, b) == IF a <= b THEN a ELSE b

\* (mutant) the lookup does not filter on is_active
FindGlobalModel_IgnoresActive(model_name) ==
    {g \in catalog.global_models : g.name = model_name}

\* db.query(GlobalModel).filter(name == model_name, is_active == True).first()
FindGlobalModel(model_name) ==
    {g \in catalog.global_models : g.name = model_name /\ g.is_active}

\* _query_providers: active providers by ascending priority, then offset and limit
QueryProviders(provider_offset_, provider_limit) ==
    LET active == {p \in Providers : catalog.provider_is_active[p]}
        ordered == SortedBy(active, [p \in active |-> <<catalog.provider_priority[p]>>])
        from == IF provider_offset_ # 0 THEN provider_offset_ + 1 ELSE 1
        upto == IF provider_limit # None /\ provider_limit # 0
                THEN Min(Len(ordered), from + provider_limit - 1)
                ELSE Len(ordered)
    IN SubSeq(ordered, from, upto)

\* (mutant) the streaming support of the implementation is not looked at
CheckModelSupport_IgnoresStreaming(p, gm_id, is_stream, capability_requirements) ==
    LET rows == {m \in catalog.provider_models[p] : m.global_model_id = gm_id /\ m.is_active}
        caps == UNION {g.supported_capabilities : g \in {g \in catalog.global_models : g.id = gm_id}}
    IN /\ rows # {}
       /\ (capability_requirements # {} /\ caps # {}) => capability_requirements \subseteq caps

\* _check_model_support_for_global_model: an active Model row of the provider
\* for the GlobalModel; for a streaming request the row must support
\* streaming; every required capability must be in the model's list of
\* supported capabilities when that list is not empty
CheckModelSupport(p, gm_id, is_stream, capability_requirements) ==
    LET rows == {m \in catalog.provider_models[p] : m.global_model_id = gm_id /\ m.is_active}
        caps == UNION {g.supported_capabilities : g \in {g \in catalog.global_models : g.id = gm_id}}
    IN /\ rows # {}
       /\ is_stream => (CHOOSE m \in rows : TRUE).supports_streaming
       /\ (capability_requirements # {} /\ caps # {}) => capability_requirements \subseteq caps

\* check_capability_match(key_caps, None): a key holding an EXCLUSIVE capability
\* that the request does not need is not a match
CheckCapabilityMatch(k) == ~catalog.key_exclusive_capability[k]

\* _check_key_availability: circuit breaker, whitelist, capability match
CheckKeyAvailability(k, model_name) ==
    IF catalog.key_circuit_open[k] THEN [is_available |-> FALSE, skip_reason |-> "circuit_open"]
    ELSE IF ~catalog.key_allowed_models[k].is_null
            /\ model_name \notin catalog.key_allowed_models[k].names
    THEN [is_available |-> FALSE, skip_reason |-> "model_not_allowed"]
    ELSE IF ~CheckCapabilityMatch(k)
    THEN [is_available |-> FALSE, skip_reason |-> "capability_mismatch"]
    ELSE [is_available |-> TRUE, skip_reason |-> ""]

\* the keys of a list
KeySet(keys) == {keys[i] : i \in 1..Len(keys)}

\* (mutant) a group without hash order keeps the order of the list it was given
ShuffleKeysByInternalPriority_KeepsOrder(keys, affinity_key) ==
    LET prio(k) == IF catalog.key_internal_priority[k] = None THEN NullPriority
                   ELSE catalog.key_internal_priority[k]
        group(k) == {j \in KeySet(keys) : prio(j) = prio(k)}
        score == [k \in KeySet(keys) |->
                    <<prio(k),
                      IF Cardinality(group(k)) > 1 /\ affinity_key # ""
                      THEN HashScore(affinity_key, k) ELSE 0>>]
    IN StableSortedBy(keys, score)

\* _shuffle_keys_by_internal_priority of a list of keys: the groups of equal
\* internal_priority (NULL ranked 999999) in ascending priority; a group of
\* several keys in ascending hash score when an affinity_key is given, else
\* in ascending key id
ShuffleKeysByInternalPriority(keys, affinity_key) ==
    LET prio(k) == IF catalog.key_internal_priority[k] = None THEN NullPriority
                   ELSE catalog.key_internal_priority[k]
        group(k) == {j \in KeySet(keys) : prio(j) = prio(k)}
        score == [k \in KeySet(keys) |->
                    <<prio(k),
                      IF Cardinality(group(k)) > 1 /\ affinity_key # ""
                      THEN HashScore(affinity_key, k) ELSE IdRank(k)>>]
    IN StableSortedBy(keys, score)

\* (mutant) the endpoint's is_active flag is not tested
EndpointMatches_IgnoresActive(e, target_format) ==
    endpoint_api_format[e] = target_format

\* the endpoints of a provider that _build_candidates enumerates keys of
EndpointMatches(e, target_format) ==
    catalog.endpoint_is_active[e] /\ endpoint_api_format[e] = target_format

\* "if allowed_endpoints and endpoint.id not in allowed_endpoints: continue"
EndpointAllowed(e, allowed_endpoints) ==
    ~(IsTruthy(allowed_endpoints) /\ e \notin allowed_endpoints.members)

\* "if allowed_providers:", the providers kept by id or by name
FilterProviders(providers, allowed_providers) ==
    IF IsTruthy(allowed_providers)
    THEN SelectSeq(providers, LAMBDA q : \/ q \in allowed_providers.members
                                        \/ provider_name[q] \in allowed_providers.members)
    ELSE providers

\* (mutant) keys whose circuit breaker is open are left out
ActiveKeys_Healthy(e) ==
    {k \in EndpointKeys(e) : catalog.key_is_active[k] /\ ~catalog.key_circuit_open[k]}

\* the keys of an endpoint that become candidates
ActiveKeys(e) == {k \in EndpointKeys(e) : catalog.key_is_active[k]}

\* "[key for key in endpoint.api_keys if key.is_active]": the active keys in
\* the order the relationship enumerates them
EnumeratedKeys(e) == SelectSeq(catalog.api_keys_order, LAMBDA k : k \in ActiveKeys(e))

Candidate(p, e, k, model_name) ==
    LET verdict == CheckKeyAvailability(k, model_name)
    IN [ provider |-> p, endpoint |-> e, key |-> k, is_cached |-> FALSE,
         is_skipped |-> ~verdict.is_available, skip_reason |-> verdict.skip_reason ]

\* candidates of one endpoint, one per active key
EndpointCandidates(p, e, model_name, affinity_key) ==
    LET keys == ShuffleKeysByInternalPriority(EnumeratedKeys(e), affinity_key)
    IN [i \in 1..Len(keys) |-> Candidate(p, e, keys[i], model_name)]

\* candidates of one provider: provider.endpoints in id order
ProviderCandidates(p, target_format, model_name, gm_id, affinity_key, allowed_endpoints, is_stream, capability_requirements) ==
    IF ~CheckModelSupport(p, gm_id, is_stream, capability_requirements) THEN <<>>
    ELSE LET es == {e \in ProviderEndpoints(p) :
                       /\ EndpointMatches(e, target_format)
                       /\ EndpointAllowed(e, allowed_endpoints)}
             eseq == SortedBy(es, [e \in es |-> <<IdRank(e)>>])
         IN Flatten([i \in 1..Len(eseq) |->
                        EndpointCandidates(p, eseq[i], model_name, affinity_key)])

\* _build_candidates: the loop returns as soon as max_candidates are collected
BuildCandidates(providers, target_format, model_name, gm_id, affinity_key, max_candidates, allowed_endpoints, is_stream, capability_requirements) ==
    LET all == Flatten([i \in 1..Len(providers) |->
                   ProviderCandidates(providers[i], target_format, model_name, gm_id,
                                      affinity_key, allowed_endpoints, is_stream,
                                      capability_requirements)])
    IN IF max_candidates # None /\ max_candidates # 0 /\ Len(all) > max_candidates
       THEN SubSeq(all, 1, max_candidates)
       ELSE all

\* the rank of a candidate's key in _sort_by_global_priority_with_hash
GlobalRank(c) ==
    IF catalog.key_global_priority[c.key] = None THEN NullPriority
    ELSE catalog.key_global_priority[c.key]

\* sorted(group, key=secondary_sort) compares (provider_priority,
\* internal_priority, id) tuples: between two candidates of equal provider
\* priority of which exactly one has a NULL internal_priority, None < int
\* raises TypeError; the branch is taken by a group when no affinity_key is given
SecondarySortRaises(cands, affinity_key) ==
    /\ affinity_key = ""
    /\ \E i, j \in DOMAIN cands :
          /\ GlobalRank(cands[i]) = GlobalRank(cands[j])
          /\ catalog.provider_priority[cands[i].provider]
                = catalog.provider_priority[cands[j].provider]
          /\ catalog.key_internal_priority[cands[i].key] = None
          /\ catalog.key_internal_priority[cands[j].key] # None

\* _sort_by_global_priority_with_hash: groups by ascending global_priority (NULL
\* ranked 999999); a group of several candidates is ordered by the hash score
\* when an affinity_key is given, else by (provider priority, key internal
\* priority, key id)
SortByGlobalPriorityWithHash(cands, affinity_key) ==
    LET C == {cands[i] : i \in 1..Len(cands)}
        group(c) == {d \in C : GlobalRank(d) = GlobalRank(c)}
        score == [c \in C |->
                    IF Cardinality(group(c)) > 1 /\ affinity_key # ""
                    THEN <<GlobalRank(c), HashScore(affinity_key, c.key)>>
                    ELSE <<GlobalRank(c), catalog.provider_priority[c.provider],
                           catalog.key_internal_priority[c.key], IdRank(c.key)>>]
    IN StableSortedBy(cands, score)

\* _apply_priority_mode_sort
ApplyPriorityModeSort(cands, affinity_key) ==
    IF cands = <<>> THEN cands
    ELSE IF priority_mode = "global_key"
    THEN SortByGlobalPriorityWithHash(cands, affinity_key)
    ELSE cands

(***************************************************************************)
(* Affinity store (CacheAffinityManager): one record per                   *)
(* (affinity_key, api_format, global_model_id).                            *)
(***************************************************************************)
AffinitySlots == Callers \X {"CLAUDE", "OPENAI"} \X {"gm1", "gm2"}

NoAffinity == [provider_id |-> "", endpoint_id |-> "", key_id |-> "", ttl |-> 0]

\* get_affinity
GetAffinity(affinity_key, api_format, gm_id) == affinity[<<affinity_key, api_format, gm_id>>]

\* (mutant) the write also leaves a record in the caller's slot of model gm2
SetAffinity_TwoSlots(store, affinity_key, provider_id, endpoint_id, key_id, api_format, gm_id, ttl) ==
    [store EXCEPT ![<<affinity_key, api_format, gm_id>>] =
        [provider_id |-> provider_id, endpoint_id |-> endpoint_id,
         key_id |-> key_id, ttl |-> ttl],
                  ![<<affinity_key, api_format, "gm2">>] =
        [provider_id |-> provider_id, endpoint_id |-> endpoint_id,
         key_id |-> key_id, ttl |-> ttl]]

\* set_affinity: writes (and so refreshes) the record of the slot
SetAffinity(store, affinity_key, provider_id, endpoint_id, key_id, api_format, gm_id, ttl) ==
    [store EXCEPT ![<<affinity_key, api_format, gm_id>>] =
        [provider_id |-> provider_id, endpoint_id |-> endpoint_id,
         key_id |-> key_id, ttl |-> ttl]]

\* (mutant) the record of model gm1 is read whatever the requested model
ApplyCacheAffinity_AnyModel(cands, affinity_key, api_format, gm_id) ==
    LET aff == GetAffinity(affinity_key, api_format, "gm1")
        matches(c) == /\ c.provider = aff.provider_id
                      /\ c.endpoint = aff.endpoint_id
                      /\ c.key = aff.key_id
        mark(c, flag) == [c EXCEPT !.is_cached = flag]
        cached == SelectSeq(cands, matches)
        others == SelectSeq(cands, LAMBDA c : ~matches(c))
    IN IF aff = NoAffinity
       THEN [i \in DOMAIN cands |-> mark(cands[i], FALSE)]
       ELSE [i \in DOMAIN cached |-> mark(cached[i], TRUE)]
            \o [i \in DOMAIN others |-> mark(others[i], FALSE)]

\* (mutant) the candidate of the stored triple is marked but stays in place
ApplyCacheAffinity_MarkOnly(cands, affinity_key, api_format, gm_id) ==
    LET aff == GetAffinity(affinity_key, api_format, gm_id)
        matches(c) == /\ c.provider = aff.provider_id
                      /\ c.endpoint = aff.endpoint_id
                      /\ c.key = aff.key_id
    IN [i \in DOMAIN cands |-> [cands[i] EXCEPT !.is_cached = matches(cands[i])]]

\* _apply_cache_affinity: the candidate of the stored triple first, marked cached
ApplyCacheAffinity(cands, affinity_key, api_format, gm_id) ==
    LET aff == GetAffinity(affinity_key, api_format, gm_id)
        matches(c) == /\ c.provider = aff.provider_id
                      /\ c.endpoint = aff.endpoint_id
                      /\ c.key = aff.key_id
        mark(c, flag) == [c EXCEPT !.is_cached = flag]
        cached == SelectSeq(cands, matches)
        others == SelectSeq(cands, LAMBDA c : ~matches(c))
    IN IF aff = NoAffinity
       THEN [i \in DOMAIN cands |-> mark(cands[i], FALSE)]
       ELSE [i \in DOMAIN cached |-> mark(cached[i], TRUE)]
            \o [i \in DOMAIN others |-> mark(others[i], FALSE)]

\* what a list_all_candidates call did and returned
NoListing ==
    [ raised |-> "", candidates |-> <<>>, sorted |-> <<>>, global_model_id |-> "",
      queried |-> FALSE, built |-> FALSE, health_checks |-> 0,
      affinity_read |-> FALSE, lookup_failed |-> FALSE ]

\* list_all_candidates while every collaborator answers: model lookup,
\* restrictions, provider query, provider filter, build, sort, affinity
\* (select passes no user_api_key; provider_limit is r.provider_batch_size)
ListAllCandidates(r, offset, user_api_key) ==
    LET target_format == NormalizeApiFormat(r.api_format)
        found == FindGlobalModel(r.model_name)
        restrictions == GetEffectiveRestrictions(user_api_key)
    IN IF found = {}
       THEN [NoListing EXCEPT !.raised = "ModelNotSupported"]
       ELSE LET gm == CHOOSE g \in found : TRUE
                listed == [NoListing EXCEPT !.global_model_id = gm.id]
            IN IF IsTruthy(restrictions.allowed_api_formats)
                  /\ target_format \notin restrictions.allowed_api_formats.members
               THEN listed
               ELSE IF IsTruthy(restrictions.allowed_models)
                       /\ r.model_name \notin restrictions.allowed_models.members
               THEN listed
               ELSE LET queried == QueryProviders(offset, r.provider_batch_size)
                        providers == FilterProviders(queried, restrictions.allowed_providers)
                        built == BuildCandidates(providers, target_format, r.model_name,
                                                 gm.id, r.affinity_key,
                                                 r.max_candidates_per_batch,
                                                 restrictions.allowed_endpoints,
                                                 r.is_stream, r.capability_requirements)
                        sorted == ApplyPriorityModeSort(built, r.affinity_key)
                        use_affinity == r.affinity_key # "" /\ sorted # <<>>
                    IN IF priority_mode = "global_key"
                          /\ SecondarySortRaises(built, r.affinity_key)
                       THEN [ listed EXCEPT !.raised = "TypeError", !.queried = TRUE,
                                            !.built = TRUE, !.health_checks = Len(built) ]
                       ELSE
                       [ listed EXCEPT
                           !.queried = TRUE,
                           !.built = providers # <<>>,
                           !.health_checks = Len(built),
                           !.sorted = sorted,
                           !.affinity_read = use_affinity,
                           !.candidates =
                               IF use_affinity
                               THEN ApplyCacheAffinity(sorted, r.affinity_key,
                                                       target_format, gm.id)
                               ELSE sorted ]

\* (mutant) a failed affinity lookup loses the candidates of the page
AffinityFallback_Empty(sorted) == <<>>

\* the "except Exception" branch of _apply_cache_affinity: the list it was given
AffinityFallback(sorted) == sorted

\* the outcomes of a list_all_candidates call when a collaborator may fail:
\* get_circuit_breaker_status raising in _check_key_availability is not
\* caught anywhere; get_affinity raising is caught in _apply_cache_affinity
ListingOutcomes(listed) ==
    {listed}
    \cup (IF listed.health_checks > 0
          THEN {[NoListing EXCEPT !.raised = "get_circuit_breaker_status",
                                  !.global_model_id = listed.global_model_id,
                                  !.queried = TRUE, !.built = TRUE,
                                  !.health_checks = 1]}
          ELSE {})
    \cup (IF listed.affinity_read
          THEN {[listed EXCEPT !.candidates = AffinityFallback(listed.sorted),
                               !.lookup_failed = TRUE]}
          ELSE {})

(***************************************************************************)
(* select_with_cache_affinity, one step per page listing and per candidate *)
(* of the for loop.                                                        *)
(***************************************************************************)
NoOutcome ==
    [ kind |-> "", message |-> "", provider |-> "", endpoint |-> "", key |-> "",
      is_cached |-> FALSE, is_skipped |-> FALSE ]

Raised(kind, message) == [NoOutcome EXCEPT !.kind = kind, !.message = message]

\* the concurrent calls: none has passed its admission check
ConcurrentCalls == 1..MaxConcurrentCalls
NoCalls == [c \in ConcurrentCalls |-> "idle"]

NoTrace ==
    [ model_lookups |-> 0, provider_queries |-> 0, builder_calls |-> 0,
      health_checks |-> 0, evaluated |-> 0, admission_checks |-> 0,
      affinity_reads |-> 0, affinity_writes |-> 0 ]

(***************************************************************************)
(* The other services of the cache package at construction: LocalCache     *)
(* (services/cache/backend.py) and CacheSyncService (services/cache/sync.py). *)
(***************************************************************************)
\* LocalCache.__init__: an empty OrderedDict and an empty expiry table
NewLocalCache(max_size, default_ttl) ==
    [ cache |-> <<>>, expiry |-> <<>>, max_size |-> max_size, default_ttl |-> default_ttl ]

\* no LocalCache operation has run
NoCacheOp ==
    [ name |-> "", key |-> <<>>, found |-> FALSE, value |-> "", evicted |-> {},
      count |-> 0, touched |-> <<>> ]

\* the id that stands for None where an object is expected
NoObject == 0

\* CacheSyncService.__init__
NewCacheSyncService == [ running |-> FALSE, pubsub |-> NoObject, listener_task |-> NoObject ]

\* the callers of start() and stop()
SyncCallers == {"a", "b"}
NoSyncCall == [op |-> "", pc |-> "idle", result |-> "", pubsub |-> NoObject, task |-> NoObject]
NoSyncCalls == [c \in SyncCallers |-> NoSyncCall]

\* a LocalCache of the default size, not used yet
CacheAtRest ==
    /\ local_cache = NewLocalCache(1000, 300)
    /\ clock = 0
    /\ cache_op = NoCacheOp

\* a CacheSyncService that was never started
SyncAtRest ==
    /\ cache_sync = NewCacheSyncService
    /\ tasks = <<>>
    /\ pubsubs = <<>>
    /\ sync_calls = NoSyncCalls

ServicesAtRest == CacheAtRest /\ SyncAtRest

Init ==
    /\ \E S \in ConditionSets :
          /\ catalog = CatalogOf(S)
          /\ concurrency = ConcurrencyOf(S)
          /\ priority_mode = IF <<"priority_mode", "global_key">> \in S
                             THEN "global_key" ELSE "provider"
    /\ affinity = [s \in AffinitySlots |-> NoAffinity]
    /\ pc = "idle"
    /\ req = DefaultRequest
    /\ provider_offset = 0
    /\ global_model_id = ""
    /\ candidates = <<>>
    /\ idx = 0
    /\ outcome = NoOutcome
    /\ last_check = NoCheck
    /\ trace = NoTrace
    /\ calls = NoCalls
    /\ ServicesAtRest

\* the affinity slot a call for r addresses (<<>> when the name has no row)
RequestSlot(r) ==
    LET rows == {g \in GlobalModels : g.name = r.model_name}
    IN IF rows = {} THEN <<>>
       ELSE <<r.affinity_key, NormalizeApiFormat(r.api_format), (CHOOSE g \in rows : TRUE).id>>

\* the record the caller of r holds
HeldAffinity(r) ==
    IF RequestSlot(r) \in AffinitySlots THEN affinity[RequestSlot(r)] ELSE NoAffinity

\* a call of select_with_cache_affinity starts (the previous one has ended)
StartSelect ==
    /\ pc = "idle"
    /\ \E r \in Requests : req' = r
    /\ pc' = "listing"
    /\ provider_offset' = 0
    /\ global_model_id' = ""
    /\ candidates' = <<>>
    /\ idx' = 0
    /\ outcome' = NoOutcome
    /\ last_check' = NoCheck
    /\ trace' = NoTrace
    /\ UNCHANGED <<cacheVars, syncVars, calls, catalog, concurrency, affinity, priority_mode>>

\* (mutant) every empty page raises the first page's failure
EmptyPageFailure_AlwaysFirst(offset) ==
    Raised("ProviderNotAvailable", "model unavailable")

\* "if not candidates": the failure of the first page, or the break and the
\* failure raised after the loop
EmptyPageFailure(offset) ==
    Raised("ProviderNotAvailable",
           IF offset = 0 THEN "model unavailable" ELSE "no resources available")

\* the history of the call after a list_all_candidates call
ListingTrace(t, res) ==
    [t EXCEPT !.model_lookups = @ + 1,
              !.provider_queries = @ + (IF res.queried THEN 1 ELSE 0),
              !.builder_calls = @ + (IF res.built THEN 1 ELSE 0),
              !.health_checks = @ + res.health_checks,
              !.affinity_reads = @ + (IF res.affinity_read THEN 1 ELSE 0)]

\* ModelNotSupportedException out of list_all_candidates
ListingFailure(res) == Raised("ModelNotSupported", "")

\* an exception of a collaborator propagates out of the call: the call's
\* locals are gone, the caller holds the exception only
Unwound(message) ==
    /\ pc' = "failed"
    /\ outcome' = Raised("StoreError", message)
    /\ req' = DefaultRequest
    /\ provider_offset' = 0
    /\ global_model_id' = ""
    /\ candidates' = <<>>
    /\ idx' = 0
    /\ last_check' = NoCheck
    /\ trace' = NoTrace

\* the head of the while loop: list_all_candidates for the current offset, and
\* the "if not candidates" test
ListPage ==
    /\ pc = "listing"
    /\ \E listed \in {ListAllCandidates(req, provider_offset, NoApiKey)} :
        \E res \in ListingOutcomes(listed) :
          IF res.raised \notin {"", "ModelNotSupported"}
          THEN Unwound(res.raised)
          ELSE
          /\ trace' = ListingTrace(trace, res)
          /\ UNCHANGED <<req, provider_offset, last_check>>
          /\ IF res.raised # ""
             THEN /\ pc' = "failed"
                  /\ outcome' = ListingFailure(res)
                  /\ UNCHANGED <<candidates, idx, global_model_id>>
             ELSE /\ global_model_id' =
                        IF res.global_model_id # "" /\ global_model_id = ""
                        THEN res.global_model_id ELSE global_model_id
                  /\ candidates' = res.candidates
                  /\ IF res.candidates = <<>>
                     THEN /\ pc' = "failed"
                          /\ outcome' = EmptyPageFailure(provider_offset)
                          /\ idx' = 0
                     ELSE /\ pc' = "admitting"
                          /\ idx' = 1
                          /\ outcome' = outcome
    /\ UNCHANGED <<cacheVars, syncVars, calls, catalog, concurrency, affinity, priority_mode>>

\* (mutant) the loop steps over the candidate after the current one
Continue_SkipsOne ==
    IF idx + 1 < Len(candidates)
    THEN /\ idx' = idx + 2
         /\ UNCHANGED <<pc, provider_offset>>
    ELSE /\ idx' = 0
         /\ provider_offset' = provider_offset + req.provider_batch_size
         /\ pc' = "listing"

\* "continue": the next candidate, or past the last one the next page
Continue ==
    IF idx < Len(candidates)
    THEN /\ idx' = idx + 1
         /\ UNCHANGED <<pc, provider_offset>>
    ELSE /\ idx' = 0
         /\ provider_offset' = provider_offset + req.provider_batch_size
         /\ pc' = "listing"

\* (mutant) only the endpoint exclusion list is tested
IsExcluded_EndpointsOnly(c, r) == c.endpoint \in r.excluded_endpoints

\* whether the loop skips the candidate for the caller's exclusion lists
IsExcluded(c, r) == c.endpoint \in r.excluded_endpoints \/ c.key \in r.excluded_keys

\* the candidate's endpoint or key is in the exclusion lists: skipped
SkipExcluded ==
    /\ pc = "admitting"
    /\ IsExcluded(candidates[idx], req)
    /\ Continue
    /\ trace' = [trace EXCEPT !.evaluated = @ + 1]
    /\ UNCHANGED <<cacheVars, syncVars, calls, catalog, concurrency, affinity, priority_mode, req, global_model_id,
                   candidates, outcome, last_check>>

\* the admission check of the current candidate
CheckOf(c, ratio) ==
    CheckConcurrentAvailable(
        catalog.endpoint_max_concurrent[c.endpoint],
        GetEffectiveConcurrentLimit(catalog.key_max_concurrent[c.key],
                                    catalog.key_learned_max_concurrent[c.key]),
        c.is_cached, concurrency.endpoint[c.endpoint], concurrency.key[c.key], ratio)

\* (mutant) the check takes a slot of the endpoint and of the key it admits
CountersAfterCheck_Holds(c, check) ==
    IF check.can_use
    THEN [ key |-> [concurrency.key EXCEPT ![c.key] = Min(@ + 1, 9)],
           endpoint |-> [concurrency.endpoint EXCEPT ![c.endpoint] = Min(@ + 1, 9)] ]
    ELSE concurrency

\* the live counters after _check_concurrent_available: the check calls
\* get_current_concurrency and nothing else of the concurrency manager
CountersAfterCheck(c, check) == concurrency

\* the admission check denies the candidate: next one
DenyCandidate ==
    /\ pc = "admitting"
    /\ ~IsExcluded(candidates[idx], req)
    /\ \E ratio \in catalog.reservation_ratios :
          \E check \in {CheckOf(candidates[idx], ratio)} :
             /\ ~check.can_use
             /\ last_check' = check
             /\ concurrency' = CountersAfterCheck(candidates[idx], check)
    /\ Continue
    /\ trace' = [trace EXCEPT !.evaluated = @ + 1, !.admission_checks = @ + 1]
    /\ UNCHANGED <<cacheVars, syncVars, calls, catalog, affinity, priority_mode, req, global_model_id,
                   candidates, outcome>>

\* (mutant) the record is written whatever the cache-TTL hint of the key
WritesAffinity_Always(c, gm_id) == gm_id # ""

\* whether select writes the affinity record of the admitted candidate
WritesAffinity(c, gm_id) == key_cache_ttl_minutes[c.key] > 0 /\ gm_id # ""

\* the admission check admits the candidate: affinity write, return
SelectCandidate ==
    /\ pc = "admitting"
    /\ ~IsExcluded(candidates[idx], req)
    /\ LET c == candidates[idx]
       IN /\ \E ratio \in catalog.reservation_ratios :
                \E check \in {CheckOf(c, ratio)} :
                   /\ check.can_use
                   /\ last_check' = check
                   /\ concurrency' = CountersAfterCheck(c, check)
          /\ affinity' =
                IF WritesAffinity(c, global_model_id)
                THEN SetAffinity(affinity, req.affinity_key, c.provider, c.endpoint, c.key,
                                 NormalizeApiFormat(req.api_format), global_model_id,
                                 key_cache_ttl_minutes[c.key] * 60)
                ELSE affinity
          /\ trace' = [trace EXCEPT
                 !.evaluated = @ + 1, !.admission_checks = @ + 1,
                 !.affinity_writes = @ + (IF WritesAffinity(c, global_model_id)
                                          THEN 1 ELSE 0)]
          /\ outcome' = [ kind |-> "selected", message |-> "", provider |-> c.provider,
                          endpoint |-> c.endpoint, key |-> c.key,
                          is_cached |-> c.is_cached, is_skipped |-> c.is_skipped ]
    /\ pc' = "selected"
    /\ UNCHANGED <<cacheVars, syncVars, calls, catalog, priority_mode, req, provider_offset,
                   global_model_id, candidates, idx>>

\* get_current_concurrency raises while the candidate is checked: select has no
\* handler, the exception ends the call
CheckRaises ==
    /\ pc = "admitting"
    /\ ~IsExcluded(candidates[idx], req)
    /\ Unwound("get_current_concurrency")
    /\ UNCHANGED <<cacheVars, syncVars, calls, catalog, concurrency, affinity, priority_mode>>

\* set_affinity raises (or times out) for the admitted candidate: select has no
\* handler, the exception ends the call; the record may have been written
AffinityWriteRaises ==
    /\ pc = "admitting"
    /\ ~IsExcluded(candidates[idx], req)
    /\ WritesAffinity(candidates[idx], global_model_id)
    /\ LET c == candidates[idx]
       IN /\ \E ratio \in catalog.reservation_ratios : CheckOf(c, ratio).can_use
          /\ affinity' \in
                {affinity,
                 SetAffinity(affinity, req.affinity_key, c.provider, c.endpoint, c.key,
                             NormalizeApiFormat(req.api_format), global_model_id,
                             key_cache_ttl_minutes[c.key] * 60)}
    /\ Unwound("set_affinity")
    /\ UNCHANGED <<cacheVars, syncVars, calls, catalog, concurrency, priority_mode>>

\* the caller cancels the call at one of its suspension points before the
\* affinity write (the awaits of list_all_candidates and of the admission
\* check): CancelledError propagates, no handler of select catches it
Cancel ==
    /\ pc \in {"listing", "admitting"}
    /\ Unwound("CancelledError")
    /\ UNCHANGED <<cacheVars, syncVars, calls, catalog, concurrency, affinity, priority_mode>>

\* the call has returned or raised: the caller goes on
Return ==
    /\ pc \in {"selected", "failed", "listed"}
    /\ pc' = "idle"
    /\ req' = DefaultRequest
    /\ provider_offset' = 0
    /\ global_model_id' = ""
    /\ candidates' = <<>>
    /\ idx' = 0
    /\ outcome' = NoOutcome
    /\ last_check' = NoCheck
    /\ trace' = NoTrace
    /\ UNCHANGED <<cacheVars, syncVars, calls, catalog, concurrency, affinity, priority_mode>>

Next ==
    \/ StartSelect \/ ListPage \/ SkipExcluded \/ DenyCandidate \/ SelectCandidate
    \/ CheckRaises \/ AffinityWriteRaises \/ Cancel \/ Return

Spec == Init /\ [][Next]_vars

(***************************************************************************)
(* The single-triple catalog: one provider P1 with one endpoint E1 with    *)
(* one key K1 for the requested format, with every combination of the      *)
(* endpoint cap, the key's caps and the live counts; the caller u1 may     *)
(* hold an affinity record to (P1, E1, K1) from an earlier call.           *)
(***************************************************************************)
\* the most in-flight requests on the key
MaxInFlight == 5

EndpointLimits == {None, 10}
KeyFixedLimits == {None, 0, 1, 2, 5}
KeyLearnedLimits == {None, 3}
\* in-flight requests on the endpoint's other keys
OtherInFlight == {0, 5}

SingleTripleCatalog(endpoint_limit, max_concurrent, learned_max_concurrent) ==
    LET nominal == CatalogOf({})
    IN [nominal EXCEPT
          !.provider_is_active = [p \in Providers |-> p = "P1"],
          !.key_is_active = [k \in Keys |-> k # "K2"],
          !.endpoint_max_concurrent = [@ EXCEPT !["E1"] = endpoint_limit],
          !.key_max_concurrent = [@ EXCEPT !["K1"] = max_concurrent],
          !.key_learned_max_concurrent = [@ EXCEPT !["K1"] = learned_max_concurrent],
          !.reservation_ratios = ReservationRatios]

InitScenario ==
    /\ \E endpoint_limit \in EndpointLimits, max_concurrent \in KeyFixedLimits,
          learned \in KeyLearnedLimits :
          catalog = SingleTripleCatalog(endpoint_limit, max_concurrent, learned)
    /\ \E key_count \in 0..MaxInFlight, others \in OtherInFlight :
          concurrency =
             [ key |-> [k \in Keys |-> IF k = "K1" THEN key_count ELSE 0],
               endpoint |-> [e \in Endpoints |->
                                IF e = "E1" THEN key_count + others ELSE 0] ]
    /\ priority_mode = "provider"
    /\ \E held \in BOOLEAN :
          affinity = IF held
                     THEN SetAffinity([s \in AffinitySlots |-> NoAffinity],
                                      "u1", "P1", "E1", "K1", "CLAUDE", "gm1",
                                      key_cache_ttl_minutes["K1"] * 60)
                     ELSE [s \in AffinitySlots |-> NoAffinity]
    /\ pc = "idle"
    /\ req = DefaultRequest
    /\ provider_offset = 0
    /\ global_model_id = ""
    /\ candidates = <<>>
    /\ idx = 0
    /\ outcome = NoOutcome
    /\ last_check = NoCheck
    /\ trace = NoTrace
    /\ calls = NoCalls
    /\ ServicesAtRest

SpecScenario == InitScenario /\ [][Next]_vars

(***************************************************************************)
(* The nominal catalog with both models active ("old-m" implemented by P1  *)
(* and P2), with or without load on K2: calls for two models, two formats  *)
(* and two callers share the affinity store.                               *)
(***************************************************************************)
NominalLoads == {{}, {<<"full", "K2">>}}

InitNominal ==
    /\ \E S \in NominalLoads :
          /\ catalog = CatalogOf(S \cup {<<"model_active", "gm2">>})
          /\ concurrency = ConcurrencyOf(S)
    /\ priority_mode = "provider"
    /\ affinity = [s \in AffinitySlots |-> NoAffinity]
    /\ pc = "idle"
    /\ req = DefaultRequest
    /\ provider_offset = 0
    /\ global_model_id = ""
    /\ candidates = <<>>
    /\ idx = 0
    /\ outcome = NoOutcome
    /\ last_check = NoCheck
    /\ trace = NoTrace
    /\ calls = NoCalls
    /\ ServicesAtRest

SpecNominal == InitNominal /\ [][Next]_vars

(***************************************************************************)
(* Direct calls of list_all_candidates with the caller's user_api_key: the *)
(* call reads the catalog and the affinity store and changes neither.      *)
(***************************************************************************)
\* how many of the restriction columns of the key and its user are set
MaxRestrictions == 1

\* (ApiKey.allowed_providers, User.allowed_providers): ids or names
ProviderListPairs ==
    { <<{"P2"}, {}>>, <<{}, {"P2"}>>, <<{"beta"}, {}>>,
      <<{"P1", "P2"}, {"P2", "P3"}>>, <<{"P1"}, {"P2"}>> }
\* (ApiKey.allowed_endpoints, User.allowed_endpoints)
EndpointListPairs ==
    { <<{"E2"}, {}>>, <<{"E1", "E2"}, {"E2", "E3"}>>, <<{"E1"}, {"E2"}>> }
\* (ApiKey.allowed_models, User.allowed_models)
ModelListPairs ==
    { <<{"other-model"}, {}>>, <<{"gpt-x"}, {}>>,
      <<{"gpt-x", "other-model"}, {"other-model"}>>, <<{"gpt-x"}, {"other-model"}>> }
\* ApiKey.allowed_api_formats
FormatLists == {{"OPENAI"}, {"CLAUDE"}}

\* a key without restriction, of a user without restriction
FreeApiKey == [NoApiKey EXCEPT !.is_none = FALSE]

\* the keys with one more restriction column set than k
OneMoreRestriction(k) ==
    {[k EXCEPT !.allowed_providers = x[1], !.user.allowed_providers = x[2]] :
        x \in ProviderListPairs}
    \cup {[k EXCEPT !.allowed_endpoints = x[1], !.user.allowed_endpoints = x[2]] :
             x \in EndpointListPairs}
    \cup {[k EXCEPT !.allowed_models = x[1], !.user.allowed_models = x[2]] :
             x \in ModelListPairs}
    \cup {[k EXCEPT !.allowed_api_formats = x] : x \in FormatLists}

RECURSIVE ApiKeysUpTo(_)
ApiKeysUpTo(n) ==
    IF n = 0 THEN {FreeApiKey}
    ELSE LET fewer == ApiKeysUpTo(n - 1)
         IN fewer \cup UNION {OneMoreRestriction(k) : k \in fewer}

\* user_api_key: None, or a key with at most MaxRestrictions restrictions
ApiKeys == {NoApiKey} \cup ApiKeysUpTo(MaxRestrictions)

\* provider_offset of a direct call
ListingOffsets == {0, 1}

\* required capabilities of a direct call (capability_requirements)
CapabilityRequirements == {{}, {"vision"}}

\* list_all_candidates(api_format, model_name, affinity_key, user_api_key,
\* provider_offset, provider_limit, max_candidates, is_stream,
\* capability_requirements) called by the request layer, the arguments drawn
\* from the given sets
ListCandidatesWith(callers, keys, streams, requirements) ==
    /\ pc = "idle"
    /\ \E affinity_key \in callers, key \in keys, batch \in BatchSizes,
          offset \in ListingOffsets, max_candidates \in MaxCandidateValues,
          is_stream \in streams, capability_requirements \in requirements :
          LET r == [DefaultRequest EXCEPT !.affinity_key = affinity_key,
                                          !.provider_batch_size = batch,
                                          !.max_candidates_per_batch = max_candidates,
                                          !.user_api_key = key,
                                          !.is_stream = is_stream,
                                          !.capability_requirements = capability_requirements]
          IN \E listed \in {ListAllCandidates(r, offset, key)} :
             \E res \in ListingOutcomes(listed) :
                IF res.raised # ""
                THEN Unwound(res.raised)
                ELSE /\ req' = r
                     /\ provider_offset' = offset
                     /\ pc' = "listed"
                     /\ candidates' = res.candidates
                     /\ global_model_id' = res.global_model_id
                     /\ trace' = ListingTrace(NoTrace, res)
                     /\ outcome' = NoOutcome
                     /\ idx' = 0
                     /\ last_check' = NoCheck
    /\ UNCHANGED <<cacheVars, syncVars, calls, catalog, concurrency, affinity, priority_mode>>

\* a direct call of a restricted caller, not streaming, no capability required
ListCandidates == ListCandidatesWith({"u1"}, ApiKeys, {FALSE}, {{}})

\* a direct call without user_api_key, streaming or not, with or without a
\* required capability
ListForCapability == ListCandidatesWith({"u1"}, {NoApiKey}, BOOLEAN, CapabilityRequirements)

\* a direct call of either caller, or without affinity_key ("": None)
ListByPriority == ListCandidatesWith(Callers \cup {""}, {NoApiKey}, {FALSE}, {{}})

\* the caller u1 may hold a record to (P2, E2, K3)
InitListing ==
    /\ \E S \in ConditionSets :
          /\ catalog = CatalogOf(S)
          /\ concurrency = ConcurrencyOf(S)
          /\ priority_mode = IF <<"priority_mode", "global_key">> \in S
                             THEN "global_key" ELSE "provider"
    /\ \E held \in BOOLEAN :
          affinity = IF held
                     THEN SetAffinity([s \in AffinitySlots |-> NoAffinity],
                                      "u1", "P2", "E2", "K3", "CLAUDE", "gm1", 300)
                     ELSE [s \in AffinitySlots |-> NoAffinity]
    /\ pc = "idle"
    /\ req = DefaultRequest
    /\ provider_offset = 0
    /\ global_model_id = ""
    /\ candidates = <<>>
    /\ idx = 0
    /\ outcome = NoOutcome
    /\ last_check = NoCheck
    /\ trace = NoTrace
    /\ calls = NoCalls
    /\ ServicesAtRest

NextListing == ListCandidates \/ Return

SpecListing == InitListing /\ [][NextListing]_vars

\* what a catalog may hold about the support of the model by the providers
SupportConditions ==
    {<<"provider_inactive", "P1">>, <<"model_inactive", "P1">>, <<"model_missing", "P2">>,
     <<"endpoint_inactive", "E1">>, <<"circuit_open", "K2">>}
    \cup ({"no_streaming"} \X {"P1", "P2"})
    \cup ({"caps_tools_only", "caps_vision"} \X {"gm1"})

InitSupport ==
    /\ \E S \in SetsUpTo(SupportConditions, MaxConditions) :
          /\ catalog = CatalogOf(S)
          /\ concurrency = ConcurrencyOf(S)
    /\ priority_mode = "provider"
    /\ affinity = [s \in AffinitySlots |-> NoAffinity]
    /\ pc = "idle"
    /\ req = DefaultRequest
    /\ provider_offset = 0
    /\ global_model_id = ""
    /\ candidates = <<>>
    /\ idx = 0
    /\ outcome = NoOutcome
    /\ last_check = NoCheck
    /\ trace = NoTrace
    /\ calls = NoCalls
    /\ ServicesAtRest

NextSupport == ListForCapability \/ Return

SpecSupport == InitSupport /\ [][NextSupport]_vars

\* values of the priority columns: NULL, small ranks, and a rank above the one
\* the sorters give to NULL
Priorities == {None, 1, 2, 1000000}
\* Provider.provider_priority is not nullable
ProviderPriorities == {1, 9}

\* the catalogs that differ from the nominal one in the priorities of P1, of
\* the keys K1, K2 of its endpoint E1
InitPriority ==
    /\ \E pp \in ProviderPriorities, ip1, ip2, gp1, gp2 \in Priorities :
          catalog = [CatalogOf({}) EXCEPT
                        !.provider_priority["P1"] = pp,
                        !.key_internal_priority["K1"] = ip1,
                        !.key_internal_priority["K2"] = ip2,
                        !.key_global_priority["K1"] = gp1,
                        !.key_global_priority["K2"] = gp2]
    /\ concurrency = ConcurrencyOf({})
    /\ priority_mode \in {"provider", "global_key"}
    /\ affinity = [s \in AffinitySlots |-> NoAffinity]
    /\ pc = "idle"
    /\ req = DefaultRequest
    /\ provider_offset = 0
    /\ global_model_id = ""
    /\ candidates = <<>>
    /\ idx = 0
    /\ outcome = NoOutcome
    /\ last_check = NoCheck
    /\ trace = NoTrace
    /\ calls = NoCalls
    /\ ServicesAtRest

NextPriority == ListByPriority \/ Return

SpecPriority == InitPriority /\ [][NextPriority]_vars

\* orders in which endpoint.api_keys may enumerate the rows
KeyEnumerations ==
    { <<"K1", "K2", "K3", "K4", "K5">>, <<"K2", "K1", "K3", "K4", "K5">>,
      <<"K5", "K4", "K3", "K2", "K1">> }
\* priorities of the keys of the sorted lists: NULL, equal or different ranks
SortPriorities == {None, 1, 2}

\* the catalogs that differ from the nominal one in the enumeration order of
\* the keys and in the priorities of K1 and K2, the keys of endpoint E1
InitSort ==
    /\ \E order \in KeyEnumerations, ip1, ip2 \in SortPriorities, gp1, gp2 \in {None, 1} :
          catalog = [CatalogOf({}) EXCEPT
                        !.api_keys_order = order,
                        !.key_internal_priority["K1"] = ip1,
                        !.key_internal_priority["K2"] = ip2,
                        !.key_global_priority["K1"] = gp1,
                        !.key_global_priority["K2"] = gp2]
    /\ concurrency = ConcurrencyOf({})
    /\ priority_mode \in {"provider", "global_key"}
    /\ affinity = [s \in AffinitySlots |-> NoAffinity]
    /\ pc = "idle"
    /\ req = DefaultRequest
    /\ provider_offset = 0
    /\ global_model_id = ""
    /\ candidates = <<>>
    /\ idx = 0
    /\ outcome = NoOutcome
    /\ last_check = NoCheck
    /\ trace = NoTrace
    /\ calls = NoCalls
    /\ ServicesAtRest

NextSort == ListByPriority \/ Return

SpecSort == InitSort /\ [][NextSort]_vars

(***************************************************************************)
(* Properties of select_with_cache_affinity.                               *)
(***************************************************************************)
Selected == pc = "selected"
FailedWith(kind) == pc = "failed" /\ outcome.kind = kind

\* the active GlobalModel rows of the requested name, read off the table
ActiveEntries(model_name) ==
    {g \in catalog.global_models : g.name = model_name /\ g.is_active = TRUE}

\* C1: every returned triple has an active endpoint of the requested
\* (normalized) format that belongs to the returned provider, a key of that
\* endpoint that is active, and an active provider with an active
\* implementation of the requested model.
C1_ReturnedTripleIsValid ==
    Selected =>
        /\ catalog.endpoint_is_active[outcome.endpoint]
        /\ endpoint_api_format[outcome.endpoint] = NormalizeApiFormat(req.api_format)
        /\ endpoint_provider_id[outcome.endpoint] = outcome.provider
        /\ key_endpoint_id[outcome.key] = outcome.endpoint
        /\ catalog.provider_is_active[outcome.provider]
        /\ \E g \in ActiveEntries(req.model_name) :
              \E m \in catalog.provider_models[outcome.provider] :
                 m.global_model_id = g.id /\ m.is_active
        /\ catalog.key_is_active[outcome.key]

\* a triple is returned from a later provider because an earlier provider's
\* endpoint is inactive, its key is inactive or it does not implement the model
C1_Witness ==
    /\ Selected
    /\ req.excluded_endpoints = {} /\ req.excluded_keys = {}
    /\ trace.admission_checks = 1
    /\ \/ outcome.provider = "P2" /\ ~catalog.endpoint_is_active["E1"]
       \/ outcome.provider = "P2"
          /\ \A m \in catalog.provider_models["P1"] :
                m.global_model_id = "gm1" => ~m.is_active
       \/ outcome.key = "K2" /\ req.affinity_key = "u2" /\ ~catalog.key_is_active["K1"]

\* C2 (as claimed): a returned candidate was never marked unavailable by the
\* builder, and its key's circuit breaker is not open.
C2_NeverReturnsSkipped ==
    Selected => ~outcome.is_skipped /\ ~catalog.key_circuit_open[outcome.key]

\* C3: the returned endpoint and key are in neither exclusion list.
C3_ReturnedNotExcluded ==
    Selected =>
        /\ outcome.endpoint \notin req.excluded_endpoints
        /\ outcome.key \notin req.excluded_keys

\* the caller's cache-affine candidate came first and was excluded, and another
\* candidate was returned
C3_Witness ==
    /\ Selected
    /\ candidates[1].is_cached
    /\ candidates[1].key \in req.excluded_keys
       \/ (candidates[1].endpoint \in req.excluded_endpoints /\ provider_offset = 0)
    /\ outcome.key # candidates[1].key

\* a candidate the builder produces for the request from the whole catalog,
\* that is in neither exclusion list and that the admission check accepts
\* whatever the reservation ratio
AdmissibleAnywhere ==
    LET gm == FindGlobalModel(req.model_name)
        all == BuildCandidates(QueryProviders(0, 0), NormalizeApiFormat(req.api_format),
                               req.model_name, (CHOOSE g \in gm : TRUE).id,
                               req.affinity_key, None, NoRestriction,
                               req.is_stream, req.capability_requirements)
    IN  /\ gm # {}
        /\ \E i \in 1..Len(all) :
              /\ ~all[i].is_skipped
              /\ ~IsExcluded(all[i], req)
              /\ \A ratio \in ReservationRatios :
                    /\ CheckOf([all[i] EXCEPT !.is_cached = FALSE], ratio).can_use
                    /\ CheckOf([all[i] EXCEPT !.is_cached = TRUE], ratio).can_use

\* C4 (as claimed): the selection fails with "provider not available" only
\* when no provider of the catalog has an admissible candidate.
C4_FailsOnlyWhenNothingAdmissible ==
    FailedWith("ProviderNotAvailable") => ~AdmissibleAnywhere

\* the number of pages the active providers fill at the request's batch size
ProviderPages ==
    LET n == Cardinality({p \in Providers : catalog.provider_is_active[p]})
    IN  (n + req.provider_batch_size - 1) \div req.provider_batch_size

\* C5 (as claimed): with N provider pages and no admissible candidate on any
\* of them, the selection fails only after N pages were fetched.
C5_FailsAfterAllPages ==
    (FailedWith("ProviderNotAvailable") /\ ~AdmissibleAnywhere)
        => trace.builder_calls = ProviderPages

\* C6: an empty page at offset 0 fails with the "model unavailable" message
\* and one at a later offset with the "no resources available" message; the
\* first message is never raised after a candidate was evaluated.
C6_FailureMessageByOffset ==
    FailedWith("ProviderNotAvailable") =>
        /\ candidates = <<>>
        /\ (provider_offset = 0) <=> (outcome.message = "model unavailable")
        /\ (provider_offset > 0) <=> (outcome.message = "no resources available")
        /\ outcome.message = "model unavailable" =>
              trace.evaluated = 0 /\ trace.admission_checks = 0

\* candidates of an earlier page were evaluated and a later empty page ended
\* the search with the exhaustion message
C6_Witness ==
    /\ FailedWith("ProviderNotAvailable")
    /\ outcome.message = "no resources available"
    /\ provider_offset > 0
    /\ trace.evaluated > 0

\* C7: when the model table has no active entry of the requested name, the
\* selection fails with "model not supported" before any provider page is
\* fetched, any admission check is made and any affinity is read or written.
C7_ModelNotSupportedFirst ==
    (pc # "idle" /\ ActiveEntries(req.model_name) = {}) =>
        /\ pc \in {"listing", "failed"}
        /\ pc = "failed" => outcome.kind = "ModelNotSupported"
        /\ trace.provider_queries = 0
        /\ trace.builder_calls = 0
        /\ trace.admission_checks = 0
        /\ trace.affinity_reads = 0
        /\ trace.affinity_writes = 0

\* the selection of a name without an active entry has failed
C7_Witness ==
    /\ FailedWith("ModelNotSupported")
    /\ ActiveEntries(req.model_name) = {}
    /\ trace.model_lookups = 1

(***************************************************************************)
(* Properties of the admission check, on the single-triple scenario.       *)
(***************************************************************************)
\* an admission check has been made in the current call
Checked == trace.admission_checks > 0

\* ceil(limit * (1 - ratio/100)) as the least integer not below the product
CeilOfUnreserved(limit, ratio) ==
    CHOOSE n \in 0..limit :
        /\ 100 * n >= limit * (100 - ratio)
        /\ \A m \in 0..limit : 100 * m >= limit * (100 - ratio) => n <= m

\* the endpoint cap of the last check is not reached
EndpointCapFree ==
    \/ last_check.endpoint_limit = None
    \/ last_check.endpoint_current < last_check.endpoint_limit

\* C8: a non-affine candidate on a key with effective limit L passes the
\* key-level check exactly when the key's concurrency is below
\* max(1, ceil(L * (1 - ratio))); a denied only candidate makes the selection
\* fail with "provider not available".
C8_NonAffineAdmission ==
    (Checked /\ ~last_check.is_cached_user /\ last_check.effective_limit # None) =>
        /\ last_check.can_use <=>
              /\ EndpointCapFree
              /\ last_check.key_current <
                    Max(1, CeilOfUnreserved(last_check.effective_limit,
                                            last_check.reservation_ratio))
        /\ ~last_check.can_use => pc # "selected"
        /\ (~last_check.can_use /\ pc = "failed") =>
              outcome.kind = "ProviderNotAvailable"

\* limit 5, ratio 10%: the non-affine call at 5 in flight is denied at the key
\* level and the selection has failed
C8_Witness ==
    /\ Checked /\ ~last_check.is_cached_user
    /\ last_check.effective_limit = 5 /\ last_check.reservation_ratio = 10
    /\ last_check.key_current = 5 /\ EndpointCapFree
    /\ ~last_check.can_use
    /\ FailedWith("ProviderNotAvailable")

\* C9: a cache-affine candidate is admitted exactly when the endpoint cap is
\* not reached and the key's concurrency is below its effective limit,
\* whatever the reservation ratio.
C9_AffineIgnoresReservation ==
    (Checked /\ last_check.is_cached_user) =>
        last_check.can_use <=>
            /\ EndpointCapFree
            /\ \/ last_check.effective_limit = None
               \/ last_check.key_current < last_check.effective_limit

\* a cache-affine candidate takes the last slot of its key under the maximal
\* reservation
C9_Witness ==
    /\ Checked /\ last_check.is_cached_user
    /\ last_check.reservation_ratio = 100
    /\ last_check.effective_limit = 5 /\ last_check.key_current = 4
    /\ last_check.can_use /\ Selected

\* C10: on a key with effective limit >= 1 and no call in flight, a non-affine
\* candidate passes the key-level check for every reservation ratio.
C10_ReservationFloor ==
    ( /\ Checked /\ ~last_check.is_cached_user
      /\ last_check.effective_limit # None /\ last_check.effective_limit >= 1
      /\ last_check.key_current = 0 /\ EndpointCapFree )
        => last_check.can_use

\* a non-affine candidate is admitted on an idle key under the maximal
\* reservation
C10_Witness ==
    /\ Checked /\ ~last_check.is_cached_user
    /\ last_check.reservation_ratio = 100
    /\ last_check.effective_limit >= 1 /\ last_check.key_current = 0
    /\ last_check.can_use /\ Selected

\* C11 (as claimed): on the single triple with endpoint cap 10 and key cap 5,
\* the caller holding the affinity record to (P1, E1, K1) is admitted on the
\* affine path and gets (P1, E1, K1) back although 5 calls of other callers are
\* in flight on K1.
C11_AffineAdmittedAtFullKey ==
    ( /\ pc \in {"selected", "failed"}
      /\ Checked /\ last_check.is_cached_user
      /\ last_check.endpoint_limit = 10 /\ last_check.endpoint_current = 5
      /\ last_check.effective_limit = 5 /\ last_check.key_current = 5 )
        => /\ Selected
           /\ outcome.provider = "P1" /\ outcome.endpoint = "E1" /\ outcome.key = "K1"

(***************************************************************************)
(* Affinity: stickiness, writes, scoping, invalidation.                    *)
(***************************************************************************)
\* the triple of the record the caller of r holds, as a candidate
HeldCandidate(r) ==
    LET h == HeldAffinity(r)
    IN [ provider |-> h.provider_id, endpoint |-> h.endpoint_id, key |-> h.key_id,
         is_cached |-> TRUE, is_skipped |-> FALSE, skip_reason |-> "" ]

SameTriple(c, d) ==
    c.provider = d.provider /\ c.endpoint = d.endpoint /\ c.key = d.key

\* the triple of the held record is still a candidate of the whole catalog for r
HeldIsListed(r) ==
    LET gm == FindGlobalModel(r.model_name)
        all == BuildCandidates(QueryProviders(0, 0), NormalizeApiFormat(r.api_format),
                               r.model_name, (CHOOSE g \in gm : TRUE).id,
                               r.affinity_key, None, NoRestriction,
                               r.is_stream, r.capability_requirements)
    IN gm # {} /\ \E i \in 1..Len(all) : SameTriple(all[i], HeldCandidate(r))

\* the held record is live, its triple listed, not excluded and admitted
HeldIsAdmissible(r) ==
    /\ HeldAffinity(r) # NoAffinity
    /\ HeldIsListed(r)
    /\ ~IsExcluded(HeldCandidate(r), r)
    /\ \A ratio \in ReservationRatios :
          /\ CheckOf(HeldCandidate(r), ratio).can_use
          /\ CheckOf([HeldCandidate(r) EXCEPT !.is_cached = FALSE], ratio).can_use

\* the step that ends a call of select without a store exception
EndsCall ==
    /\ pc \in {"listing", "admitting"}
    /\ pc' \in {"selected", "failed"}
    /\ outcome'.kind # "StoreError"

\* no candidate of the page carries the held triple unmarked (the affinity
\* lookup of the page did not fail)
LookupMarked ==
    \A i \in 1..Len(candidates) :
        SameTriple(candidates[i], HeldCandidate(req)) => candidates[i].is_cached

\* C12 (as claimed): a call for (caller, format, model) whose affinity record
\* is live and whose triple is still in the catalog, not excluded and admitted
\* by the admission check returns the triple of the record.
C12_AffinitySticky ==
    [][ (EndsCall /\ HeldIsAdmissible(req) /\ LookupMarked)
            => /\ pc' = "selected"
               /\ SameTriple(outcome', HeldCandidate(req)) ]_vars

\* C13: a successful select whose key has a positive cache-TTL hint leaves the
\* record of (caller, format, canonical model) equal to the returned triple
\* with ttl = cache_ttl_minutes * 60 and has written once, also when the
\* candidate was cache-affine; with a hint of 0 it has written nothing.
C13_WritesAffinityOnSuccess ==
    Selected =>
        IF key_cache_ttl_minutes[outcome.key] > 0
        THEN /\ trace.affinity_writes = 1
             /\ HeldAffinity(req) =
                   [ provider_id |-> outcome.provider, endpoint_id |-> outcome.endpoint,
                     key_id |-> outcome.key,
                     ttl |-> key_cache_ttl_minutes[outcome.key] * 60 ]
        ELSE trace.affinity_writes = 0

\* a cache-affine candidate was returned and its record refreshed
C13_Witness ==
    /\ Selected /\ outcome.is_cached
    /\ trace.affinity_writes = 1
    /\ HeldAffinity(req).key_id = outcome.key
    /\ HeldAffinity(req).ttl = 300

\* only a candidate that carries the triple of the call's own record is marked
OwnRecordRead ==
    pc = "admitting" =>
        \A i \in 1..Len(candidates) :
            candidates[i].is_cached
                => /\ HeldAffinity(req) # NoAffinity
                   /\ SameTriple(candidates[i], HeldCandidate(req))

\* a step changes no record but the one of the call's own slot
OwnRecordWritten ==
    \A s \in AffinitySlots :
        affinity'[s] # affinity[s] => pc = "admitting" /\ s = RequestSlot(req)

\* C14: a select for (caller, format, model) marks as cache-affine only the
\* triple of the record of (caller, format, canonical model), and no step
\* creates, changes or removes the record of any other combination.
C14_AffinityScoped == []OwnRecordRead /\ [][OwnRecordWritten]_vars

\* the call wrote its own record while the same caller holds, for the same
\* format and the other model, a record to another key
C14_Witness ==
    /\ Selected /\ trace.affinity_writes = 1
    /\ \E s \in AffinitySlots :
          /\ s[1] = req.affinity_key
          /\ s[2] = NormalizeApiFormat(req.api_format)
          /\ s # RequestSlot(req)
          /\ affinity[s] # NoAffinity
          /\ affinity[s].key_id # outcome.key

\* C15 (as claimed): when a call of select ends whose exclusion sets held the
\* triple of the caller's affinity record, the record of (caller, format,
\* model) no longer points to that triple.
C15_ExcludedAffinityInvalidated ==
    [][ (EndsCall /\ HeldAffinity(req) # NoAffinity
                  /\ IsExcluded(HeldCandidate(req), req))
            => LET now == affinity'[RequestSlot(req)]
               IN ~( /\ now.provider_id = HeldAffinity(req).provider_id
                     /\ now.endpoint_id = HeldAffinity(req).endpoint_id
                     /\ now.key_id = HeldAffinity(req).key_id ) ]_vars

(***************************************************************************)
(* Failures of the stores.                                                 *)
(***************************************************************************)
\* C17 (as claimed): a store call that fails while a candidate is evaluated
\* (the concurrency-count fetch, the affinity write) never ends select with
\* the store's exception: select fails only with "provider not available".
C17_StoreFailureSkipsCandidate ==
    ~( /\ pc = "failed"
       /\ outcome.kind = "StoreError"
       /\ outcome.message \in {"get_current_concurrency", "set_affinity"} )

\* C18 (as claimed): a failure of the circuit-breaker lookup of a key while
\* candidates are built never ends the call with the lookup's exception.
C18_HealthFailureRecovered ==
    ~( /\ pc = "failed"
       /\ outcome.kind = "StoreError"
       /\ outcome.message = "get_circuit_breaker_status" )

\* what list_all_candidates computes for the page of the call in progress
PageListing == ListAllCandidates(req, provider_offset, NoApiKey)

\* the page holds the triple of the caller's record unmarked: the affinity
\* lookup of the page failed
LookupFailed ==
    /\ pc = "admitting"
    /\ HeldAffinity(req) # NoAffinity
    /\ \E i \in 1..Len(candidates) :
          SameTriple(candidates[i], HeldCandidate(req)) /\ ~candidates[i].is_cached

\* C16: a failed affinity lookup never ends the call: the page handed to the
\* admission loop is then the priority-sorted list with no candidate marked
\* cache-affine, and select fails with "provider not available" only on a
\* page whose sorted list is empty.
C16_AffinityLookupBestEffort ==
    /\ outcome.message # "get_affinity"
    /\ LookupFailed =>
          /\ candidates = PageListing.sorted
          /\ \A i \in 1..Len(candidates) : ~candidates[i].is_cached
    /\ (pc = "admitting" /\ ~LookupFailed) => candidates = PageListing.candidates
    /\ FailedWith("ProviderNotAvailable") => PageListing.sorted = <<>>

\* the lookup failed on a page where the held triple is not the first of the
\* sorted order, and the admission loop starts with the first
C16_Witness ==
    /\ LookupFailed
    /\ idx = 1
    /\ Len(candidates) >= 2
    /\ ~SameTriple(candidates[1], HeldCandidate(req))

(***************************************************************************)
(* Restrictions of the caller's key and account.                          *)
(***************************************************************************)
\* the list in force for a column set at key level, at account level or both
EffectiveList(key_list, user_list) ==
    IF key_list # {} /\ user_list # {} THEN key_list \cap user_list
    ELSE key_list \cup user_list

\* the column is set at some level
ListPresent(key_list, user_list) == key_list # {} \/ user_list # {}

\* C19 (as claimed): every candidate list_all_candidates produces for a
\* restricted caller has its provider (by id or name) in the merged provider
\* list and its endpoint in the merged endpoint list, a list present at both
\* levels being merged by intersection: disjoint lists produce no candidate.
C19_CandidatesWithinRestrictions ==
    (pc = "listed" /\ ~req.user_api_key.is_none) =>
        LET k == req.user_api_key
            providers == EffectiveList(k.allowed_providers, k.user.allowed_providers)
            endpoints == EffectiveList(k.allowed_endpoints, k.user.allowed_endpoints)
        IN \A i \in 1..Len(candidates) :
              /\ ListPresent(k.allowed_providers, k.user.allowed_providers)
                    => \/ candidates[i].provider \in providers
                       \/ provider_name[candidates[i].provider] \in providers
              /\ ListPresent(k.allowed_endpoints, k.user.allowed_endpoints)
                    => candidates[i].endpoint \in endpoints

\* the effective model list is non-empty without the requested model, or the
\* key's format list is non-empty without the requested format
RequestDenied ==
    LET k == req.user_api_key
        models == EffectiveList(k.allowed_models, k.user.allowed_models)
    IN /\ ~k.is_none
       /\ \/ models # {} /\ req.model_name \notin models
          \/ /\ k.allowed_api_formats # {}
             /\ NormalizeApiFormat(req.api_format) \notin k.allowed_api_formats

\* C20: list_all_candidates for a caller whose restrictions deny the model or
\* the format returns no candidate after the model lookup alone: no provider
\* query, no candidate build, no health check, no affinity lookup, no
\* admission check.
C20_DeniedRequestTouchesNothing ==
    (pc = "listed" /\ RequestDenied) =>
        /\ candidates = <<>>
        /\ trace.model_lookups = 1
        /\ trace.provider_queries = 0
        /\ trace.builder_calls = 0
        /\ trace.health_checks = 0
        /\ trace.affinity_reads = 0
        /\ trace.admission_checks = 0

\* allowed_models = ["other-model"], request for "gpt-x" on the nominal catalog
C20_Witness ==
    /\ pc = "listed"
    /\ req.user_api_key.allowed_models = {"other-model"}
    /\ req.model_name = "gpt-x"
    /\ catalog = CatalogOf({})
    /\ candidates = <<>>
    /\ trace.model_lookups = 1

(***************************************************************************)
(* Concurrent calls on one triple (P1, E1, K1): each call passes the       *)
(* admission check on the counters it reads, the accounting layer outside  *)
(* the scheduler counts the request afterwards and releases it when the    *)
(* request is over.  The scheduler itself never changes a counter.         *)
(***************************************************************************)
TheTriple ==
    [ provider |-> "P1", endpoint |-> "E1", key |-> "K1",
      is_cached |-> FALSE, is_skipped |-> FALSE, skip_reason |-> "" ]

\* _check_concurrent_available of call c on the counters of this moment
ConcurrentCheck(c) ==
    /\ calls[c] = "idle"
    /\ \E is_cached \in BOOLEAN, ratio \in catalog.reservation_ratios :
          \E check \in {CheckOf([TheTriple EXCEPT !.is_cached = is_cached], ratio)} :
             /\ last_check' = check
             /\ calls' = [calls EXCEPT ![c] = IF check.can_use THEN "admitted" ELSE "idle"]
             /\ concurrency' = CountersAfterCheck(TheTriple, check)
    /\ UNCHANGED <<cacheVars, syncVars, catalog, affinity, priority_mode, pc, req,
                   provider_offset, global_model_id, candidates, idx, outcome, trace>>

\* the accounting layer counts the request of the admitted call c
ExternalAcquire(c) ==
    /\ calls[c] = "admitted"
    /\ calls' = [calls EXCEPT ![c] = "counted"]
    /\ concurrency' = [ key |-> [concurrency.key EXCEPT !["K1"] = @ + 1],
                        endpoint |-> [concurrency.endpoint EXCEPT !["E1"] = @ + 1] ]
    /\ UNCHANGED <<cacheVars, syncVars, catalog, affinity, priority_mode, pc, req, provider_offset,
                   global_model_id, candidates, idx, outcome, last_check, trace>>

\* the request of call c is over
ExternalRelease(c) ==
    /\ calls[c] = "counted"
    /\ calls' = [calls EXCEPT ![c] = "idle"]
    /\ concurrency' = [ key |-> [concurrency.key EXCEPT !["K1"] = @ - 1],
                        endpoint |-> [concurrency.endpoint EXCEPT !["E1"] = @ - 1] ]
    /\ UNCHANGED <<cacheVars, syncVars, catalog, affinity, priority_mode, pc, req, provider_offset,
                   global_model_id, candidates, idx, outcome, last_check, trace>>

InitConcurrent ==
    /\ \E endpoint_limit \in EndpointLimits, max_concurrent \in KeyFixedLimits,
          learned \in KeyLearnedLimits :
          catalog = SingleTripleCatalog(endpoint_limit, max_concurrent, learned)
    /\ concurrency = [ key |-> [k \in Keys |-> 0], endpoint |-> [e \in Endpoints |-> 0] ]
    /\ priority_mode = "provider"
    /\ affinity = [s \in AffinitySlots |-> NoAffinity]
    /\ pc = "idle"
    /\ req = DefaultRequest
    /\ provider_offset = 0
    /\ global_model_id = ""
    /\ candidates = <<>>
    /\ idx = 0
    /\ outcome = NoOutcome
    /\ last_check = NoCheck
    /\ trace = NoTrace
    /\ calls = NoCalls
    /\ ServicesAtRest

NextConcurrent ==
    \E c \in ConcurrentCalls :
        \/ ConcurrentCheck(c)
        \/ ExternalAcquire(c)
        \/ ExternalRelease(c)

SpecConcurrent == InitConcurrent /\ [][NextConcurrent]_vars

\* the effective limit of key K1
TheKeyLimit ==
    GetEffectiveConcurrentLimit(catalog.key_max_concurrent["K1"],
                                catalog.key_learned_max_concurrent["K1"])

\* C21 (as claimed): with concurrent calls admitted before the accounting
\* layer counts them, the live count of a key with a limit of at least one
\* never exceeds the limit by more than one.
C21_OvershootAtMostOne ==
    (TheKeyLimit # None /\ TheKeyLimit >= 1)
        => concurrency.key["K1"] <= TheKeyLimit + 1

(***************************************************************************)
(* Order of evaluation.                                                    *)
(***************************************************************************)
\* the candidate is in the exclusion lists or some admission check rejects it
Passable(c) ==
    \/ IsExcluded(c, req)
    \/ \E ratio \in catalog.reservation_ratios : ~CheckOf(c, ratio).can_use

\* how many candidates the pages before the current one listed
RECURSIVE ListedBefore(_)
ListedBefore(offset) ==
    IF offset <= 0 THEN 0
    ELSE LET before == offset - req.provider_batch_size
         IN ListedBefore(before)
            + Len(ListAllCandidates(req, before, NoApiKey).candidates)

\* C22: the loop evaluates the candidates of a page one by one in list order
\* and returns the first admitted one: every candidate before the returned
\* one is excluded or rejected by the admission check, the last check made
\* is the one of the returned candidate, and the call has evaluated exactly
\* the candidates of the earlier pages and those up to the returned one.
C22_FirstAdmittedWins ==
    /\ pc = "admitting" =>
          /\ idx \in 1..Len(candidates)
          /\ \A i \in 1..(idx - 1) : Passable(candidates[i])
    /\ Selected =>
          /\ idx \in 1..Len(candidates)
          /\ SameTriple(outcome, candidates[idx])
          /\ outcome.is_cached = candidates[idx].is_cached
          /\ ~IsExcluded(candidates[idx], req)
          /\ last_check.can_use
          /\ last_check = CheckOf(candidates[idx], last_check.reservation_ratio)
          /\ \A i \in 1..(idx - 1) : Passable(candidates[i])
          /\ trace.evaluated = ListedBefore(provider_offset) + idx

\* a candidate that is not the first of its page is returned after the
\* admission check rejected the one before it
C22_Witness ==
    /\ Selected
    /\ idx >= 2
    /\ trace.admission_checks >= 2
    /\ ~IsExcluded(candidates[idx - 1], req)

(***************************************************************************)
(* Levels of the admission check.                                          *)
(***************************************************************************)
\* the key-level bound of the last check: the whole limit for a cached user,
\* the unreserved part (at least one slot) for a new one
KeyBound ==
    IF last_check.is_cached_user THEN last_check.effective_limit
    ELSE Max(1, CeilOfUnreserved(last_check.effective_limit,
                                 last_check.reservation_ratio))

\* C23: with an endpoint cap and endpoint concurrency at or above it the
\* check rejects, cache-affine or not and whatever the key level says; with a
\* null endpoint cap a rejection always comes from the key level.
C23_EndpointHardCap ==
    Checked =>
        /\ ( /\ last_check.endpoint_limit # None
             /\ last_check.endpoint_current >= last_check.endpoint_limit )
              => ~last_check.can_use /\ pc # "selected"
        /\ (last_check.endpoint_limit = None /\ ~last_check.can_use)
              => /\ last_check.effective_limit # None
                 /\ last_check.key_current >= KeyBound

\* a cache-affine call on a key without limit is rejected at the endpoint cap
C23_Witness ==
    /\ Checked /\ last_check.is_cached_user
    /\ last_check.endpoint_limit = 10 /\ last_check.endpoint_current = 10
    /\ last_check.effective_limit = None
    /\ ~last_check.can_use
    /\ FailedWith("ProviderNotAvailable")

\* the call is in the wire format of endpoint E1, whose only active key in the
\* single-triple catalog is K1: the checks of the call are checks of K1
CheckedKeyIsK1 ==
    /\ NormalizeApiFormat(req.api_format) = endpoint_api_format["E1"]
    /\ \A k \in EndpointKeys("E1") : catalog.key_is_active[k] => k = "K1"

\* C24: the effective limit of the checked key is its fixed cap when one is
\* configured, whatever was learned, else the learned cap, else none; without
\* an effective limit the check rejects only at the endpoint cap, for affine
\* and new callers alike and at any key concurrency.
C24_EffectiveKeyLimit ==
    (Checked /\ CheckedKeyIsK1) =>
        LET fixed == catalog.key_max_concurrent["K1"]
            learned == catalog.key_learned_max_concurrent["K1"]
        IN /\ fixed # None => last_check.effective_limit = fixed
           /\ (fixed = None /\ learned # None) => last_check.effective_limit = learned
           /\ (fixed = None /\ learned = None) => last_check.effective_limit = None
           /\ last_check.effective_limit = None
                 => /\ last_check.can_use <=> EndpointCapFree
                    /\ last_check.key_limit = None

\* fixed cap 2 with 3 learned: the affine call at 2 in flight is rejected
C24_Witness ==
    /\ Checked /\ CheckedKeyIsK1 /\ last_check.is_cached_user
    /\ catalog.key_max_concurrent["K1"] = 2
    /\ catalog.key_learned_max_concurrent["K1"] = 3
    /\ last_check.effective_limit = 2
    /\ last_check.key_current = 2 /\ EndpointCapFree
    /\ ~last_check.can_use

(***************************************************************************)
(* Affinity integration and restriction merge.                             *)
(***************************************************************************)
\* the positions of list s that hold the triple of candidate c
PositionsOf(s, c) == {i \in 1..Len(s) : SameTriple(s[i], c)}

\* C25: the page handed to the admission loop is a permutation of the sorted
\* list; when the caller's record exists and its triple is in the sorted
\* list, that candidate is first and marked cache-affine and the others
\* follow in their sorted order, unmarked; otherwise the order is the sorted
\* one and no candidate is marked.
C25_AffinityIntegration ==
    (pc = "admitting" /\ ~LookupFailed) =>
        LET sorted == PageListing.sorted
            held == HeldCandidate(req)
            found == HeldAffinity(req) # NoAffinity /\ PositionsOf(sorted, held) # {}
            others == SelectSeq(sorted, LAMBDA c : ~SameTriple(c, held))
        IN /\ Len(candidates) = Len(sorted)
           /\ \A i \in 1..Len(sorted) :
                 Cardinality(PositionsOf(candidates, sorted[i]))
                     = Cardinality(PositionsOf(sorted, sorted[i]))
           /\ IF found
              THEN /\ SameTriple(candidates[1], held) /\ candidates[1].is_cached
                   /\ Len(candidates) = 1 + Len(others)
                   /\ \A i \in 1..Len(others) :
                         /\ SameTriple(candidates[i + 1], others[i])
                         /\ ~candidates[i + 1].is_cached
              ELSE /\ \A i \in 1..Len(sorted) :
                         /\ SameTriple(candidates[i], sorted[i])
                         /\ ~candidates[i].is_cached

\* the stored triple was not the first of the sorted list and has been moved
\* to the front
C25_Witness ==
    /\ pc = "admitting"
    /\ Len(candidates) >= 2
    /\ candidates[1].is_cached
    /\ ~SameTriple(PageListing.sorted[1], candidates[1])
    /\ SameTriple(PageListing.sorted[1], candidates[2])

\* the merged restriction of a column: the common members when the key's and
\* the user's list are both set (a NULL or empty list is not set), the list
\* that is set when one is, no restriction when none is
MergedAsClaimed(key_list, user_list, merged) ==
    /\ (key_list # {} /\ user_list # {})
          => ~merged.is_none /\ merged.members = {x \in key_list : x \in user_list}
    /\ (key_list # {} /\ user_list = {})
          => ~merged.is_none /\ merged.members = key_list
    /\ (key_list = {} /\ user_list # {})
          => ~merged.is_none /\ merged.members = user_list
    /\ (key_list = {} /\ user_list = {}) => merged.is_none

\* C26: for the provider, endpoint and model columns the effective
\* restriction of a caller's key is the intersection of the key's and the
\* user's list when both are set, the one that is set when only one is, and
\* None when neither is.
C26_RestrictionMerge ==
    (pc = "listed" /\ ~req.user_api_key.is_none) =>
        LET k == req.user_api_key
            merged == GetEffectiveRestrictions(k)
        IN /\ MergedAsClaimed(k.allowed_providers, k.user.allowed_providers,
                              merged.allowed_providers)
           /\ MergedAsClaimed(k.allowed_endpoints, k.user.allowed_endpoints,
                              merged.allowed_endpoints)
           /\ MergedAsClaimed(k.allowed_models, k.user.allowed_models,
                              merged.allowed_models)

\* key list [P1, P2], user list [P2, P3]: the listing holds candidates of P2
\* alone
C26_Witness ==
    /\ pc = "listed"
    /\ req.user_api_key.allowed_providers = {"P1", "P2"}
    /\ req.user_api_key.user.allowed_providers = {"P2", "P3"}
    /\ GetEffectiveRestrictions(req.user_api_key).allowed_providers.members = {"P2"}
    /\ candidates # <<>>
    /\ \A i \in 1..Len(candidates) : candidates[i].provider = "P2"

(***************************************************************************)
(* The candidate builder.                                                  *)
(***************************************************************************)
\* the providers of the page of the direct call that pass the provider filter
PageProviders ==
    LET page == QueryProviders(provider_offset, req.provider_batch_size)
        k == req.user_api_key
        allowed == EffectiveList(k.allowed_providers, k.user.allowed_providers)
    IN {p \in Providers :
          /\ \E i \in 1..Len(page) : page[i] = p
          /\ k.is_none \/ allowed = {} \/ p \in allowed \/ provider_name[p] \in allowed}

\* the endpoint passes the endpoint filter of the direct call
EndpointPasses(e) ==
    LET k == req.user_api_key
        allowed == EffectiveList(k.allowed_endpoints, k.user.allowed_endpoints)
    IN k.is_none \/ allowed = {} \/ e \in allowed

\* the (provider, endpoint, key) triples the catalog holds for the call: active
\* keys of active endpoints in the call's format of the page's providers with
\* an active implementation of the model
ExpectedTriples ==
    LET supporting ==
            {p \in PageProviders :
                \E m \in catalog.provider_models[p] :
                    m.global_model_id = global_model_id /\ m.is_active}
        endpoints ==
            {e \in Endpoints :
                /\ endpoint_provider_id[e] \in supporting
                /\ catalog.endpoint_is_active[e]
                /\ endpoint_api_format[e] = NormalizeApiFormat(req.api_format)
                /\ EndpointPasses(e)}
    IN {<<endpoint_provider_id[key_endpoint_id[k]], key_endpoint_id[k], k>> :
          k \in {k \in Keys : key_endpoint_id[k] \in endpoints /\ catalog.key_is_active[k]}}

ListedTriples ==
    {<<candidates[i].provider, candidates[i].endpoint, candidates[i].key>> :
        i \in 1..Len(candidates)}

\* the key is unavailable for the model: circuit open, model outside a
\* whitelist that is set, or an exclusive capability the call does not need
KeyUnavailable(k) ==
    \/ catalog.key_circuit_open[k]
    \/ /\ ~catalog.key_allowed_models[k].is_null
       /\ req.model_name \notin catalog.key_allowed_models[k].names
    \/ catalog.key_exclusive_capability[k]

\* C27: a listing holds one candidate for every active key of every active
\* endpoint in the call's format that the restrictions allow, of every
\* provider of the page with an active implementation of the model, up to
\* max_candidates, available or not: a candidate is marked skipped exactly
\* when its key is unavailable, and then carries a reason.
C27_OneCandidatePerActiveKey ==
    (pc = "listed" /\ ~RequestDenied) =>
        /\ Len(candidates) = Cardinality(ListedTriples)
        /\ ListedTriples \subseteq ExpectedTriples
        /\ IF req.max_candidates_per_batch = None
           THEN ListedTriples = ExpectedTriples
           ELSE Len(candidates) = Min(req.max_candidates_per_batch,
                                      Cardinality(ExpectedTriples))
        /\ \A i \in 1..Len(candidates) :
              /\ candidates[i].is_skipped <=> KeyUnavailable(candidates[i].key)
              /\ candidates[i].is_skipped <=> candidates[i].skip_reason # ""

\* a listing with a skipped and an available candidate
C27_Witness ==
    /\ pc = "listed"
    /\ \E i, j \in 1..Len(candidates) :
          /\ candidates[i].is_skipped /\ candidates[i].skip_reason = "circuit_open"
          /\ ~candidates[j].is_skipped

\* the provider lacks what the call needs of the requested model: no active
\* implementation, or a streaming call and an implementation without
\* streaming, or a required capability outside the model's non-empty list
ProviderUnsupported(p) ==
    LET impls == {m \in catalog.provider_models[p] :
                     m.global_model_id = global_model_id /\ m.is_active}
    IN \/ impls = {}
       \/ req.is_stream /\ \E m \in impls : ~m.supports_streaming
       \/ \E g \in catalog.global_models :
             /\ g.id = global_model_id
             /\ g.supported_capabilities # {}
             /\ req.capability_requirements \ g.supported_capabilities # {}

\* C28: when a provider has no active implementation of the requested model,
\* or the call is streaming and its implementation does not support
\* streaming, or a required capability is missing from the model's non-empty
\* list of supported capabilities, the listing holds no candidate of that
\* provider, skipped or not.
C28_UnsupportedProviderDropped ==
    pc = "listed" =>
        \A p \in Providers :
            ProviderUnsupported(p) =>
                \A i \in 1..Len(candidates) : candidates[i].provider # p

C28_Witness ==
    /\ pc = "listed"
    /\ req.is_stream
    /\ provider_offset = 0
    /\ req.provider_batch_size = 20
    /\ catalog.provider_is_active["P1"]
    /\ \E m \in catalog.provider_models["P1"] :
          m.global_model_id = global_model_id /\ m.is_active /\ ~m.supports_streaming
    /\ candidates # <<>>
    /\ \A i \in 1..Len(candidates) : candidates[i].provider # "P1"

\* a required capability outside the model's list drops every provider
C28_WitnessCapability ==
    /\ pc = "listed"
    /\ req.capability_requirements = {"vision"}
    /\ \E g \in catalog.global_models :
          g.id = global_model_id /\ g.supported_capabilities = {"tools"}
    /\ candidates = <<>>

\* the number of active providers the query ranks before provider p
ProviderRank(p) ==
    Cardinality({q \in Providers : /\ catalog.provider_is_active[q]
                                   /\ catalog.provider_priority[q]
                                        < catalog.provider_priority[p]})

\* the listing of a provider-priority scheduler has ended with a list
ListedByProvider == pc = "listed" /\ priority_mode = "provider"

\* providers in non-decreasing priority, inside the page and from page to page:
\* a page at offset o holds candidates of the providers ranked o, o+1, ...
ProvidersAscending ==
    ListedByProvider =>
        /\ \A i, j \in 1..Len(candidates) :
              i < j => catalog.provider_priority[candidates[i].provider]
                         <= catalog.provider_priority[candidates[j].provider]
        /\ \A i \in 1..Len(candidates) :
              /\ ProviderRank(candidates[i].provider) >= provider_offset
              /\ ProviderRank(candidates[i].provider)
                    < provider_offset + req.provider_batch_size

\* the keys of one endpoint are contiguous
EndpointContiguous ==
    ListedByProvider =>
        \A i, j, k \in 1..Len(candidates) :
            (i < j /\ j < k /\ candidates[i].endpoint = candidates[k].endpoint)
                => candidates[j].endpoint = candidates[i].endpoint

\* keys of one endpoint with an internal priority: non-decreasing
InternalAscending ==
    ListedByProvider =>
        \A i, j \in 1..Len(candidates) :
            LET a == catalog.key_internal_priority[candidates[i].key]
                b == catalog.key_internal_priority[candidates[j].key]
            IN (i < j /\ candidates[i].endpoint = candidates[j].endpoint
                      /\ a # None /\ b # None) => a <= b

\* keys of one endpoint without internal priority after those with one
NullInternalLast ==
    ListedByProvider =>
        \A i, j \in 1..Len(candidates) :
            (/\ i < j
             /\ candidates[i].endpoint = candidates[j].endpoint
             /\ catalog.key_internal_priority[candidates[i].key] = None)
                => catalog.key_internal_priority[candidates[j].key] = None

\* keys of one endpoint of equal internal priority: by the hash of (caller, key)
TiesByHash ==
    (ListedByProvider /\ req.affinity_key # "") =>
        \A i, j \in 1..Len(candidates) :
            (/\ i < j
             /\ candidates[i].endpoint = candidates[j].endpoint
             /\ catalog.key_internal_priority[candidates[i].key]
                   = catalog.key_internal_priority[candidates[j].key])
                => HashScore(req.affinity_key, candidates[i].key)
                      <= HashScore(req.affinity_key, candidates[j].key)

\* C29: in provider-priority mode the sorted list keeps the builder order:
\* providers in non-decreasing provider priority (also from page to page), the
\* keys of one endpoint contiguous and in non-decreasing internal priority
\* with the keys without internal priority last, and keys of equal internal
\* priority ordered by the hash of (caller id, key id).
C29_ProviderPriorityOrder ==
    /\ ProvidersAscending
    /\ EndpointContiguous
    /\ InternalAscending
    /\ NullInternalLast
    /\ TiesByHash

\* the listing of a global-key-priority scheduler has ended with a list
ListedByGlobalKey == pc = "listed" /\ priority_mode = "global_key"

\* what the builder gave the sorter in the listing that has just ended
BuilderCandidates ==
    BuildCandidates(FilterProviders(QueryProviders(provider_offset, req.provider_batch_size),
                                    NoRestriction),
                    NormalizeApiFormat(req.api_format), req.model_name, global_model_id,
                    req.affinity_key, req.max_candidates_per_batch, NoRestriction,
                    req.is_stream, req.capability_requirements)

\* the sorted list is a permutation of the builder's candidates
GlobalSortPermutes ==
    ListedByGlobalKey =>
        /\ Len(candidates) = Len(BuilderCandidates)
        /\ \A i \in 1..Len(candidates) :
              Cardinality(PositionsOf(candidates, candidates[i]))
                 = Cardinality(PositionsOf(BuilderCandidates, candidates[i]))

\* the global priorities that are set are non-decreasing along the list
GlobalAscending ==
    ListedByGlobalKey =>
        \A i, j \in 1..Len(candidates) :
            LET a == catalog.key_global_priority[candidates[i].key]
                b == catalog.key_global_priority[candidates[j].key]
            IN (i < j /\ a # None /\ b # None) => a <= b

\* every key without a global priority comes after every key that has one
NullGlobalLast ==
    ListedByGlobalKey =>
        \A i, j \in 1..Len(candidates) :
            (i < j /\ catalog.key_global_priority[candidates[i].key] = None)
                => catalog.key_global_priority[candidates[j].key] = None

\* the candidates of the list whose key has the global priority of candidate i
GlobalGroup(i) ==
    {j \in 1..Len(candidates) :
        catalog.key_global_priority[candidates[j].key]
           = catalog.key_global_priority[candidates[i].key]}

SecondaryKey(c) ==
    <<catalog.provider_priority[c.provider], catalog.key_internal_priority[c.key],
      IdRank(c.key)>>

\* inside a group of equal global priority: by hash for a caller and a group
\* of several, else by (provider priority, internal priority, key id)
GlobalGroupOrder ==
    ListedByGlobalKey =>
        \A i, j \in 1..Len(candidates) :
            (i < j /\ j \in GlobalGroup(i)) =>
                IF req.affinity_key # "" /\ Cardinality(GlobalGroup(i)) > 1
                THEN HashScore(req.affinity_key, candidates[i].key)
                        <= HashScore(req.affinity_key, candidates[j].key)
                ELSE LexLeq(SecondaryKey(candidates[i]), SecondaryKey(candidates[j]))

\* the sort returns a list
GlobalSortReturns == ~(pc = "failed" /\ outcome.message = "TypeError")

\* C30: in global-key-priority mode the sorted list is a permutation of the
\* builder's candidates in which global priority is non-decreasing and every
\* key without a global priority comes after every key that has one, whatever
\* that key's priority value; inside a group of equal global priority the
\* order is by the hash of (caller id, key id) when a caller id is given and
\* the group has several members, else by (provider priority, key internal
\* priority, key id).
C30_GlobalKeyPriorityOrder ==
    /\ GlobalSortPermutes
    /\ GlobalAscending
    /\ NullGlobalLast
    /\ GlobalGroupOrder

(***************************************************************************)
(* Global ranking of the keys.                                             *)
(***************************************************************************)
\* the builder's candidates for the request from the whole catalog that are
\* available, in neither exclusion list, and admitted as a new user whatever
\* the reservation ratio
AdmissibleCandidates ==
    LET gm == FindGlobalModel(req.model_name)
        all == BuildCandidates(QueryProviders(0, 0), NormalizeApiFormat(req.api_format),
                               req.model_name, (CHOOSE g \in gm : TRUE).id,
                               req.affinity_key, None, NoRestriction,
                               req.is_stream, req.capability_requirements)
    IN IF gm = {} THEN {}
       ELSE {all[i] : i \in {i \in 1..Len(all) :
                /\ ~all[i].is_skipped
                /\ ~IsExcluded(all[i], req)
                /\ \A ratio \in ReservationRatios : CheckOf(all[i], ratio).can_use}}

\* key a is ranked no later than key b by global priority, a key without one
\* after every key that has one
GlobalNoLater(a, b) ==
    \/ catalog.key_global_priority[b] = None
    \/ /\ catalog.key_global_priority[a] # None
       /\ catalog.key_global_priority[a] <= catalog.key_global_priority[b]

\* a call of a caller without affinity record returns under global_key mode
ReturnsUnderGlobalKey ==
    /\ pc = "admitting"
    /\ pc' = "selected"
    /\ priority_mode = "global_key"
    /\ HeldAffinity(req) = NoAffinity

\* C31: in global-key-priority mode, when the caller has no affinity record,
\* the key select returns has the smallest global priority among all
\* non-excluded admissible keys of the whole catalog, the keys of providers
\* on later provider pages included.
C31_GlobalKeyRankedAcrossVendors ==
    [][ReturnsUnderGlobalKey =>
           \A c \in AdmissibleCandidates : GlobalNoLater(outcome'.key, c.key)]_vars

(***************************************************************************)
(* Determinism of the sorts.                                               *)
(***************************************************************************)
\* the lists that hold the elements of list s, each once, in any order
Reorderings(s) ==
    {q \in [1..Len(s) -> {s[i] : i \in 1..Len(s)}] :
        \A i, j \in 1..Len(s) : q[i] = q[j] => i = j}

\* the keys of the listed candidates of endpoint e, in list order
ListedKeysOf(e) ==
    LET of_e == SelectSeq(candidates, LAMBDA c : c.endpoint = e)
    IN [i \in 1..Len(of_e) |-> of_e[i].key]

\* list a begins list b
IsPrefix(a, b) == Len(a) <= Len(b) /\ a = SubSeq(b, 1, Len(a))

FirstPage == ListAllCandidates(req, 0, NoApiKey)

\* the keys of endpoint e the builder lists for the request from the whole
\* catalog
ListableKeysOf(e) ==
    LET gm == FindGlobalModel(req.model_name)
        all == BuildCandidates(QueryProviders(0, 0), NormalizeApiFormat(req.api_format),
                               req.model_name, (CHOOSE g \in gm : TRUE).id,
                               req.affinity_key, None, NoRestriction,
                               req.is_stream, req.capability_requirements)
    IN IF gm = {} THEN {}
       ELSE {all[i].key : i \in {i \in 1..Len(all) : all[i].endpoint = e}}

\* C33: when the candidate first in order is passed over, select evaluates
\* the remaining keys of its endpoint before any key of another endpoint or
\* provider: while the loop is at a candidate of another endpoint, every key
\* of the first candidate's endpoint has been evaluated, on the first page
\* and on the later ones.
C33_SameEndpointFirst ==
    /\ (pc = "admitting" /\ provider_offset = 0
          /\ candidates[idx].endpoint # candidates[1].endpoint)
          => ListableKeysOf(candidates[1].endpoint)
                \subseteq {candidates[i].key : i \in 1..(idx - 1)}
    /\ (pc = "admitting" /\ provider_offset > 0 /\ HeldAffinity(req) = NoAffinity
          /\ candidates[idx].endpoint # FirstPage.candidates[1].endpoint)
          => ListableKeysOf(FirstPage.candidates[1].endpoint)
                \subseteq {FirstPage.candidates[i].key : i \in 1..Len(FirstPage.candidates)}

(***************************************************************************)
(* Admission is a check.                                                   *)
(***************************************************************************)
\* C34: neither the admission check nor a whole select call, successful or
\* failed, increments or decrements a live endpoint or key concurrency
\* counter: no step of a call changes the counters.
C34_AdmissionIsCheck == [][concurrency' = concurrency]_vars

\* a call has returned a key that had requests in flight
C34_Witness ==
    /\ Selected
    /\ last_check.can_use
    /\ last_check.key_current >= 1
    /\ concurrency.key[outcome.key] = last_check.key_current
    /\ concurrency.endpoint[outcome.endpoint] = last_check.endpoint_current

(***************************************************************************)
(* Affinity writes of a call.                                              *)
(***************************************************************************)
\* the record select writes for the candidate it is at
RecordOfCurrent ==
    [ provider_id |-> candidates[idx].provider, endpoint_id |-> candidates[idx].endpoint,
      key_id |-> candidates[idx].key, ttl |-> key_cache_ttl_minutes[candidates[idx].key] * 60 ]

\* the step changes the store: it is the step in which the call ends at a
\* candidate that passes the admission check, and what changes is the record
\* of the caller's slot, now the candidate's triple
WriteAfterAdmission ==
    affinity' # affinity =>
        /\ pc = "admitting"
        /\ ~IsExcluded(candidates[idx], req)
        /\ \E ratio \in catalog.reservation_ratios : CheckOf(candidates[idx], ratio).can_use
        /\ RequestSlot(req) \in AffinitySlots
        /\ affinity' = [affinity EXCEPT ![RequestSlot(req)] = RecordOfCurrent]
        /\ \/ pc' = "selected" /\ SameTriple(outcome', candidates[idx])
           \/ pc' = "failed" /\ outcome'.message = "set_affinity"

\* the call ends with ModelNotSupported, ProviderNotAvailable or cancelled
FailsOrCancelled ==
    /\ pc \in {"listing", "admitting"}
    /\ pc' = "failed"
    /\ \/ outcome'.kind \in {"ModelNotSupported", "ProviderNotAvailable"}
       \/ outcome'.message = "CancelledError"

\* C35: a select call performs at most one affinity write, and only after the
\* returned candidate has passed the admission check; a call that fails with
\* ModelNotSupported or ProviderNotAvailable, or that is cancelled before the
\* write, leaves the affinity store as it was.
C35_SingleAffinityWrite ==
    /\ [](trace.affinity_writes <= 1)
    /\ [][WriteAfterAdmission /\ (FailsOrCancelled => affinity' = affinity)]_vars

\* a caller that holds a record had a call cancelled while a candidate was
\* about to be checked
C35_Witness ==
    /\ pc = "failed"
    /\ outcome.message = "CancelledError"
    /\ \E s \in AffinitySlots : affinity[s] # NoAffinity

(***************************************************************************)
(* Termination of a call.                                                  *)
(***************************************************************************)
\* where the call is: the page it is at and the place in the page (0 while
\* the page is fetched)
Position == <<provider_offset, IF pc = "admitting" THEN idx ELSE 0>>

\* a step that does not end the call takes it to a later position
CallAdvances ==
    [][(pc \in {"listing", "admitting"} /\ pc' \in {"listing", "admitting"})
          => LexLeq(Position, Position') /\ Position' # Position]_vars

\* the positions are bounded: a page is walked only when a provider is at its
\* offset, and the place in the page is within the page
PositionBounded ==
    [](pc \in {"listing", "admitting"} =>
          /\ provider_offset < Cardinality(Providers) + req.provider_batch_size
          /\ req.provider_batch_size >= 1
          /\ pc = "admitting" => idx \in 1..Len(candidates))

\* an iteration of the while loop that does not return goes to a later offset
OffsetIncreases ==
    [][(pc = "admitting" /\ pc' = "listing") => provider_offset' > provider_offset]_vars

\* a call that was not cancelled ends with a triple, ModelNotSupported or
\* ProviderNotAvailable
EndsByReturnOrRaise ==
    [](pc = "failed" /\ outcome.message # "CancelledError"
          => outcome.kind \in {"ModelNotSupported", "ProviderNotAvailable"})

\* C36: for a finite catalog and a provider page size of at least 1 every
\* call of select_with_cache_affinity terminates (each step that does not end
\* the call takes it to a later one of finitely many positions), returning a
\* triple or raising ModelNotSupported or ProviderNotAvailable, and the
\* provider offset strictly increases on every loop iteration that does not
\* return.
C36_SelectTerminates ==
    CallAdvances /\ PositionBounded /\ OffsetIncreases /\ EndsByReturnOrRaise

(***************************************************************************)
(* Affine and non-affine admission.                                        *)
(***************************************************************************)
\* the check of the same counts and limits for a cache-affine candidate
AffineTwin(check) ==
    CheckConcurrentAvailable(check.endpoint_limit, check.effective_limit, TRUE,
                             check.endpoint_current, check.key_current,
                             check.reservation_ratio)

\* C37: affine admission is at least as permissive as non-affine admission:
\* for every endpoint count, key count, endpoint cap, effective key limit (0
\* included) and reservation ratio, a candidate that the check admits as
\* non-affine is also admitted as cache-affine.
C37_AffineAtLeastAsPermissive ==
    (Checked /\ last_check.can_use /\ ~last_check.is_cached_user)
        => AffineTwin(last_check).can_use

(***************************************************************************)
(* LocalCache (services/cache/backend.py).  Every operation runs under     *)
(* self._lock and awaits nothing inside it, so an operation is one step.   *)
(* A key is the sequence of its characters; _cache is the list of entries  *)
(* in the order of the OrderedDict, oldest first.                          *)
(***************************************************************************)
MaxSize == 2     \* largest max_size a cache is created with
MaxOps == 4      \* operations on the cache in one behaviour
MaxClock == 2    \* last value of time.time()

CacheKeys == {<<"m", "1">>, <<"m", "2">>, <<"u", "1">>}
CacheValues == {"v1"}
MaxSizes == 0..MaxSize
DefaultTtls == {1}
\* ttl argument of set: None takes the default
Ttls == {None, 0}
\* pattern argument of clear, other than None
Patterns == {<<"m", "*">>, <<"*">>, <<"u", "1">>}

\* keys of the OrderedDict
Stored(lc) == {lc.cache[i].key : i \in DOMAIN lc.cache}

\* key in self._expiry and time.time() > self._expiry[key]
Expired(lc, now, key) == key \in DOMAIN lc.expiry /\ now > lc.expiry[key]

\* del d[key] for every key of K that d holds
DelCache(cache, K) == SelectSeq(cache, LAMBDA e : e.key \notin K)
DelExpiry(expiry, K) == [k \in DOMAIN expiry \ K |-> expiry[k]]

\* OrderedDict.move_to_end(key) (mutant: the entry keeps its place)
MoveToEnd_Stays(cache, key) == cache
MoveToEnd(cache, key) ==
    DelCache(cache, {key}) \o SelectSeq(cache, LAMBDA e : e.key = key)

\* self._cache[key] = value: a stored key keeps its place, a new key goes last
Assign(cache, key, value) ==
    IF \E i \in DOMAIN cache : cache[i].key = key
    THEN [i \in DOMAIN cache |->
             IF cache[i].key = key THEN [key |-> key, value |-> value] ELSE cache[i]]
    ELSE Append(cache, [key |-> key, value |-> value])

\* len(self._cache) > self._max_size (mutant: one entry more is tolerated)
OverCapacity_OneMore(cache, max_size) == Len(cache) > max_size + 1
OverCapacity(cache, max_size) == Len(cache) > max_size

\* the cache after set(key, value, ttl) at time now
LocalCacheSet(lc, now, key, value, ttl) ==
    LET t == IF ttl = None THEN lc.default_ttl ELSE ttl
        moved == IF key \in Stored(lc) THEN MoveToEnd(lc.cache, key) ELSE lc.cache
        cache == Assign(moved, key, value)
        expiry == [k \in DOMAIN lc.expiry \cup {key} |->
                      IF k = key THEN now + t ELSE lc.expiry[k]]
    IN IF OverCapacity(cache, lc.max_size)
       THEN LET oldest_key == Head(cache).key
            IN [lc EXCEPT !.cache = Tail(cache),
                          !.expiry = IF oldest_key \in DOMAIN expiry
                                     THEN DelExpiry(expiry, {oldest_key}) ELSE expiry]
       ELSE [lc EXCEPT !.cache = cache, !.expiry = expiry]

\* the cache after get(key) or exists(key) found key expired
LocalCacheExpire(lc, key) ==
    [lc EXCEPT !.cache = DelCache(lc.cache, {key}), !.expiry = DelExpiry(lc.expiry, {key})]

\* the cache after get(key) at time now
LocalCacheGet(lc, now, key) ==
    IF key \notin Stored(lc) THEN lc
    ELSE IF Expired(lc, now, key) THEN LocalCacheExpire(lc, key)
    ELSE [lc EXCEPT !.cache = MoveToEnd(lc.cache, key)]

\* what get(key) returns: found is FALSE for None
ValueOf(lc, key) == (CHOOSE e \in {lc.cache[i] : i \in DOMAIN lc.cache} : e.key = key).value
GetResult(lc, now, key) ==
    IF key \in Stored(lc) /\ ~Expired(lc, now, key)
    THEN [found |-> TRUE, value |-> ValueOf(lc, key)]
    ELSE [found |-> FALSE, value |-> ""]

\* the cache after exists(key) at time now: the order is left alone
LocalCacheExists(lc, now, key) ==
    IF key \in Stored(lc) /\ Expired(lc, now, key) THEN LocalCacheExpire(lc, key) ELSE lc

\* the cache after delete(key)
LocalCacheDelete(lc, key) ==
    [lc EXCEPT !.cache = IF key \in Stored(lc) THEN DelCache(lc.cache, {key}) ELSE lc.cache,
               !.expiry = IF key \in DOMAIN lc.expiry THEN DelExpiry(lc.expiry, {key})
                          ELSE lc.expiry]

\* pattern.rstrip("*")
RECURSIVE RStripStar(_)
RStripStar(pattern) ==
    IF pattern # <<>> /\ pattern[Len(pattern)] = "*"
    THEN RStripStar(SubSeq(pattern, 1, Len(pattern) - 1))
    ELSE pattern

\* k.startswith(prefix)
StartsWith(k, prefix) ==
    Len(prefix) <= Len(k) /\ SubSeq(k, 1, Len(prefix)) = prefix

\* the cache after clear(None)
LocalCacheClearAll(lc) == [lc EXCEPT !.cache = <<>>, !.expiry = <<>>]

\* the cache after clear(pattern)
LocalCacheClear(lc, pattern) ==
    LET prefix == RStripStar(pattern)
        keys_to_delete == {k \in Stored(lc) : StartsWith(k, prefix)}
    IN [lc EXCEPT !.cache = DelCache(lc.cache, keys_to_delete),
                  !.expiry = DelExpiry(lc.expiry, keys_to_delete \cap DOMAIN lc.expiry)]

\* the scheduler with the nominal catalog and no call
SchedulerAtRest ==
    /\ catalog = CatalogOf({})
    /\ concurrency = ConcurrencyOf({})
    /\ priority_mode = "provider"
    /\ affinity = [s \in AffinitySlots |-> NoAffinity]
    /\ pc = "idle"
    /\ req = DefaultRequest
    /\ provider_offset = 0
    /\ global_model_id = ""
    /\ candidates = <<>>
    /\ idx = 0
    /\ outcome = NoOutcome
    /\ last_check = NoCheck
    /\ trace = NoTrace
    /\ calls = NoCalls

\* the touch stamps after operation n touched the keys of K (a set or a
\* successful get), kept for the keys that are still stored
Touched(lc_after, K, n) ==
    [k \in Stored(lc_after) |-> IF k \in K \/ k \notin DOMAIN cache_op.touched
                                THEN n ELSE cache_op.touched[k]]

\* the history record of operation name on key
CacheOp(name, key, found, value, lc_after, K) ==
    [ name |-> name, key |-> key, found |-> found, value |-> value,
      evicted |-> IF name = "set" THEN (Stored(local_cache) \cup {key}) \ Stored(lc_after)
                  ELSE {},
      count |-> cache_op.count + 1,
      touched |-> Touched(lc_after, K, cache_op.count + 1) ]

\* await cache.set(key, value, ttl)
CacheSet ==
    /\ cache_op.count < MaxOps
    /\ \E key \in CacheKeys, value \in CacheValues, ttl \in Ttls :
          LET after == LocalCacheSet(local_cache, clock, key, value, ttl)
          IN /\ local_cache' = after
             /\ cache_op' = CacheOp("set", key, FALSE, value, after, {key})
    /\ UNCHANGED <<clock, schedulerVars, syncVars>>

\* await cache.get(key)
CacheGet ==
    /\ cache_op.count < MaxOps
    /\ \E key \in CacheKeys :
          LET after == LocalCacheGet(local_cache, clock, key)
              result == GetResult(local_cache, clock, key)
          IN /\ local_cache' = after
             /\ cache_op' = CacheOp("get", key, result.found, result.value, after,
                                    IF result.found THEN {key} ELSE {})
    /\ UNCHANGED <<clock, schedulerVars, syncVars>>

\* await cache.exists(key)
CacheExists ==
    /\ cache_op.count < MaxOps
    /\ \E key \in CacheKeys :
          LET after == LocalCacheExists(local_cache, clock, key)
          IN /\ local_cache' = after
             /\ cache_op' = CacheOp("exists", key,
                                    key \in Stored(local_cache)
                                        /\ ~Expired(local_cache, clock, key),
                                    "", after, {})
    /\ UNCHANGED <<clock, schedulerVars, syncVars>>

\* await cache.delete(key)
CacheDelete ==
    /\ cache_op.count < MaxOps
    /\ \E key \in CacheKeys :
          LET after == LocalCacheDelete(local_cache, key)
          IN /\ local_cache' = after
             /\ cache_op' = CacheOp("delete", key, FALSE, "", after, {})
    /\ UNCHANGED <<clock, schedulerVars, syncVars>>

\* await cache.clear(pattern), pattern None or a prefix pattern
CacheClear ==
    /\ cache_op.count < MaxOps
    /\ \/ LET after == LocalCacheClearAll(local_cache)
          IN /\ local_cache' = after
             /\ cache_op' = CacheOp("clear", <<>>, FALSE, "", after, {})
       \/ \E pattern \in Patterns :
             LET after == LocalCacheClear(local_cache, pattern)
             IN /\ local_cache' = after
                /\ cache_op' = CacheOp("clear", pattern, FALSE, "", after, {})
    /\ UNCHANGED <<clock, schedulerVars, syncVars>>

\* time passes between two operations
Tick ==
    /\ clock < MaxClock
    /\ clock' = clock + 1
    /\ UNCHANGED <<local_cache, cache_op, schedulerVars, syncVars>>

InitLocalCache ==
    /\ SchedulerAtRest
    /\ SyncAtRest
    /\ \E max_size \in MaxSizes, default_ttl \in DefaultTtls :
          local_cache = NewLocalCache(max_size, default_ttl)
    /\ clock = 0
    /\ cache_op = NoCacheOp

NextLocalCache == CacheSet \/ CacheGet \/ CacheExists \/ CacheDelete \/ CacheClear \/ Tick

SpecLocalCache == InitLocalCache /\ [][NextLocalCache]_vars

\* C38: the number of stored entries never exceeds max_size, and the keys
\* with an expiry time are exactly the stored keys, after any sequence of
\* set, get, exists, delete and clear on a cache created with max_size >= 0.
C38_CapacityAndExpiryKeys ==
    /\ Len(local_cache.cache) <= local_cache.max_size
    /\ DOMAIN local_cache.expiry = Stored(local_cache)
    /\ Cardinality(Stored(local_cache)) = Len(local_cache.cache)

\* a full cache of two entries after a set evicted an entry
C38_Witness ==
    /\ local_cache.max_size = 2 /\ Len(local_cache.cache) = 2
    /\ cache_op.name = "set" /\ cache_op.evicted # {}

\* a cache created with max_size 0 stays empty after a set
C38_WitnessZero ==
    /\ local_cache.max_size = 0 /\ cache_op.name = "set" /\ local_cache.cache = <<>>

(***************************************************************************)
(* LRU eviction of LocalCache.                                             *)
(***************************************************************************)
\* the step is a set
IsSetStep == cache_op'.count = cache_op.count + 1 /\ cache_op'.name = "set"

\* a set of a key that is not stored, into a cache that is full
SetOfNewKeyOverflows ==
    /\ IsSetStep
    /\ local_cache.max_size >= 1
    /\ cache_op'.key \notin Stored(local_cache)
    /\ Len(local_cache.cache) + 1 > local_cache.max_size

\* a set of a key that is stored, into a cache that is full
SetOfStoredKeyAtCapacity ==
    /\ IsSetStep
    /\ local_cache.max_size >= 1
    /\ cache_op'.key \in Stored(local_cache)
    /\ Len(local_cache.cache) = local_cache.max_size

\* no stored key was touched (by a set or a successful get) before k was
LeastRecentlyTouched(k) ==
    /\ k \in Stored(local_cache)
    /\ \A j \in Stored(local_cache) : cache_op.touched[k] <= cache_op.touched[j]

\* C39: when a set of a new key makes the entry count exceed max_size
\* (max_size >= 1), exactly one entry is evicted, it is the entry least
\* recently touched by a set or a successful get, and the key just set is
\* retained; a set of an already stored key at full capacity evicts nothing.
C39_LruEviction ==
    [][ /\ SetOfNewKeyOverflows =>
            /\ Cardinality(cache_op'.evicted) = 1
            /\ \A e \in cache_op'.evicted : LeastRecentlyTouched(e)
            /\ Stored(local_cache') = (Stored(local_cache) \cup {cache_op'.key})
                                          \ cache_op'.evicted
            /\ cache_op'.key \in Stored(local_cache')
        /\ SetOfStoredKeyAtCapacity =>
            /\ cache_op'.evicted = {}
            /\ Stored(local_cache') = Stored(local_cache) ]_vars

\* set m1, set m2, a successful get of m1, then set u1: m2 was evicted, and m1,
\* touched by the get, is kept
C39_Witness ==
    /\ local_cache.max_size = 2
    /\ cache_op.name = "set" /\ cache_op.key = <<"u", "1">> /\ cache_op.count = 4
    /\ cache_op.evicted = {<<"m", "2">>}
    /\ Stored(local_cache) = {<<"m", "1">>, <<"u", "1">>}
    /\ cache_op.touched[<<"m", "1">>] = 3

\* a set of a stored key into a full cache
C39_WitnessStoredKey ==
    /\ local_cache.max_size = 2 /\ Len(local_cache.cache) = 2
    /\ cache_op.name = "set" /\ cache_op.evicted = {}
    /\ cache_op.touched[cache_op.key] = 4
    /\ \E k \in Stored(local_cache) : cache_op.touched[k] = 2
    /\ local_cache.cache[2].key = cache_op.key

(***************************************************************************)
(* CacheSyncService (services/cache/sync.py).  start() and stop() are      *)
(* coroutines on one event loop: a call runs alone between two awaits and  *)
(* other calls run while it is suspended in one.                           *)
(***************************************************************************)
MaxStarts == 3   \* PubSub objects created in one behaviour

\* a call of the service that returned or raised
Ended(call, op, result) == [call EXCEPT !.op = op, !.pc = "idle", !.result = result]

\* start() up to its first await: the running test, self._redis.pubsub(), and
\* the call of subscribe on the new object
StartBegin(c) ==
    /\ sync_calls[c].pc = "idle"
    /\ IF cache_sync.running
       THEN /\ sync_calls' = [sync_calls EXCEPT ![c] = Ended(NoSyncCall, "start", "already_running")]
            /\ UNCHANGED <<cache_sync, pubsubs>>
       ELSE /\ Len(pubsubs) < MaxStarts
            /\ pubsubs' = Append(pubsubs, "created")
            /\ cache_sync' = [cache_sync EXCEPT !.pubsub = Len(pubsubs) + 1]
            /\ sync_calls' = [sync_calls EXCEPT ![c] =
                                 [NoSyncCall EXCEPT !.op = "start", !.pc = "subscribing",
                                                    !.pubsub = Len(pubsubs) + 1]]
    /\ UNCHANGED <<tasks, schedulerVars, cacheVars>>

\* subscribe returned: create_task(self._listen()) and self._running = True
StartSubscribed(c) ==
    /\ sync_calls[c].pc = "subscribing"
    /\ pubsubs' = [pubsubs EXCEPT ![sync_calls[c].pubsub] = "subscribed"]
    /\ tasks' = Append(tasks, "running")
    /\ cache_sync' = [cache_sync EXCEPT !.listener_task = Len(tasks) + 1, !.running = TRUE]
    /\ sync_calls' = [sync_calls EXCEPT ![c] =
                         [Ended(@, "start", "started") EXCEPT !.task = Len(tasks) + 1]]
    /\ UNCHANGED <<schedulerVars, cacheVars>>

\* subscribe raised: the except clause logs and raises again
StartRaises(c) ==
    /\ sync_calls[c].pc = "subscribing"
    /\ sync_calls' = [sync_calls EXCEPT ![c] = Ended(@, "start", "raised")]
    /\ UNCHANGED <<cache_sync, tasks, pubsubs, schedulerVars, cacheVars>>

\* Task.cancel(): a task that is done is left alone
Cancelled(ts, t) == [ts EXCEPT ![t] = IF @ = "running" THEN "cancelling" ELSE @]

\* stop() up to its first await
StopBegin(c) ==
    /\ sync_calls[c].pc = "idle"
    /\ IF ~cache_sync.running
       THEN /\ sync_calls' = [sync_calls EXCEPT ![c] = Ended(NoSyncCall, "stop", "not_running")]
            /\ UNCHANGED <<cache_sync, tasks>>
       ELSE /\ cache_sync' = [cache_sync EXCEPT !.running = FALSE]
            /\ IF cache_sync.listener_task # NoObject
               THEN /\ tasks' = Cancelled(tasks, cache_sync.listener_task)
                    /\ sync_calls' = [sync_calls EXCEPT ![c] =
                                         [NoSyncCall EXCEPT !.op = "stop", !.pc = "awaiting_task",
                                                            !.task = cache_sync.listener_task]]
               ELSE /\ tasks' = tasks
                    /\ sync_calls' = [sync_calls EXCEPT ![c] =
                                         [NoSyncCall EXCEPT !.op = "stop", !.pc = "unsubscribing",
                                                            !.pubsub = cache_sync.pubsub]]
    /\ UNCHANGED <<pubsubs, schedulerVars, cacheVars>>

\* _listen ends: it catches the CancelledError of a cancel, or the listen
\* loop fails and the error is logged
ListenerEnds ==
    /\ \E t \in DOMAIN tasks :
          /\ tasks[t] \in {"running", "cancelling"}
          /\ tasks' = [tasks EXCEPT ![t] = "done"]
    /\ UNCHANGED <<cache_sync, pubsubs, sync_calls, schedulerVars, cacheVars>>

\* await self._listener_task returned: stop() reads self._pubsub and calls
\* unsubscribe on it
StopTaskAwaited(c) ==
    /\ sync_calls[c].pc = "awaiting_task"
    /\ tasks[sync_calls[c].task] = "done"
    /\ sync_calls' = [sync_calls EXCEPT ![c] =
                         IF cache_sync.pubsub # NoObject
                         THEN [@ EXCEPT !.pc = "unsubscribing", !.pubsub = cache_sync.pubsub]
                         ELSE Ended(@, "stop", "stopped")]
    /\ UNCHANGED <<cache_sync, tasks, pubsubs, schedulerVars, cacheVars>>

\* unsubscribe returned: stop() reads self._pubsub again and calls close on it
StopUnsubscribed(c) ==
    /\ sync_calls[c].pc = "unsubscribing"
    /\ pubsubs' = [pubsubs EXCEPT ![sync_calls[c].pubsub] = "unsubscribed"]
    /\ sync_calls' = [sync_calls EXCEPT ![c] =
                         [@ EXCEPT !.pc = "closing", !.pubsub = cache_sync.pubsub]]
    /\ UNCHANGED <<cache_sync, tasks, schedulerVars, cacheVars>>

\* close returned: stop() returns
StopClosed(c) ==
    /\ sync_calls[c].pc = "closing"
    /\ pubsubs' = [pubsubs EXCEPT ![sync_calls[c].pubsub] = "closed"]
    /\ sync_calls' = [sync_calls EXCEPT ![c] = Ended(@, "stop", "stopped")]
    /\ UNCHANGED <<cache_sync, tasks, schedulerVars, cacheVars>>

\* unsubscribe or close raised: stop() has no handler for it
StopRaises(c) ==
    /\ sync_calls[c].pc \in {"unsubscribing", "closing"}
    /\ sync_calls' = [sync_calls EXCEPT ![c] = Ended(@, "stop", "raised")]
    /\ UNCHANGED <<cache_sync, tasks, pubsubs, schedulerVars, cacheVars>>

InitSync == SchedulerAtRest /\ CacheAtRest /\ SyncAtRest

NextSync ==
    \/ \E c \in SyncCallers :
          \/ StartBegin(c) \/ StartSubscribed(c) \/ StartRaises(c)
          \/ StopBegin(c) \/ StopTaskAwaited(c) \/ StopUnsubscribed(c)
          \/ StopClosed(c) \/ StopRaises(c)
    \/ ListenerEnds

SpecSync == InitSync /\ [][NextSync]_vars

\* the listener tasks that have not finished
LiveListeners == {t \in DOMAIN tasks : tasks[t] # "done"}
\* the PubSub objects that hold a subscription
Subscriptions == {p \in DOMAIN pubsubs : pubsubs[p] = "subscribed"}
\* a stop() call returns in this step
StopCompletes ==
    \E c \in SyncCallers :
        /\ sync_calls[c].pc # "idle" /\ sync_calls[c].op = "stop"
        /\ sync_calls'[c].pc = "idle" /\ sync_calls'[c].result = "stopped"

\* C40: the service has at most one listener task and one subscription at
\* any time, for any interleaving of start() and stop() calls, two start()
\* calls that overlap at the subscribe await included; and when a stop()
\* completes no listener task is running.
C40_SingleListener ==
    /\ [](Cardinality(LiveListeners) <= 1 /\ Cardinality(Subscriptions) <= 1)
    /\ [][StopCompletes => LiveListeners' = {}]_vars

====
